---- MODULE Spec2Model ----
(***************************************************************************)
(* A model of cpplumber: the leak-detection pipeline of src/src/main.rs    *)
(* and the literal decoder of src/src/information_leak/potential_leak.rs.  *)
(*                                                                         *)
(* The specifications share the module:                                    *)
(*   Spec        the binary scanner, find_leaks_in_binary_file, with the   *)
(*               branch of main that prepares its candidate collection;    *)
(*   SpecExtract the conversion of string-literal entities to potential    *)
(*               leaks and the minimum-size filter;                        *)
(*   SpecMain    the stages of main and the process exit status;           *)
(*   SpecDecode  one call of string_literal_to_bytes on a literal;         *)
(*   SpecFilter  the three suppression filters of main;                    *)
(*   SpecLoad    the suppressions file loaded and then the filters;        *)
(*   SpecGather  one call of gather_entities_by_kind on an entity tree;    *)
(*   SpecFileList a FileListDatabase built and asked for its commands;     *)
(*   SpecDedup   candidates converted from entities and deduplicated.      *)
(***************************************************************************)
EXTENDS Integers, Sequences, FiniteSets, TLC

VARIABLES
    \* ---- the binary scanner (Spec)
    ignore_multiple_declarations, \* options.ignore_multiple_declarations
    potential_leaks,              \* Vec<PotentialLeak> handed over by the filters
    bin_data,                     \* the bytes of the target binary
    scan_pc,                      \* "main", "index", "scan", "done"
    leak_desc,                    \* the collection as find_leaks_in_binary_file iterates it
    index_parts,                  \* intermediate maps of the parallel fold/reduce
    byte_to_leaks,                \* first byte -> candidates
    scan_parts,                   \* worker-local BTreeSets of the parallel map/reduce
    confirmed_leaks,              \* the BTreeSet that find_leaks_in_binary_file returns
    \* ---- extract_artifacts_from_source_files (SpecExtract)
    minimum_leak_size,            \* options.minimum_leak_size.unwrap_or(4)
    cfg_windows,                  \* cfg!(windows), the platform of the build
    ignore_system_headers,        \* !options.report_system_headers
    compile_commands,             \* the translation units to parse, in order
    ext_pc,                       \* "idle", "start", "fold", "done", "failed", "panicked"
    next_cmd,                     \* position of try_fold in compile_commands
    extract_accum,                \* accum, the Vec<PotentialLeak> of try_fold
    use_file_path_from_arguments, \* compilation_db.is_file_path_in_arguments()
    parse_requests,               \* what index.parser(..).arguments(..) was given
    error_context,                \* the path in the context of a parse error
    \* ---- main and the process (SpecMain)
    stage,                        \* the statement of main that runs next
    failure,                      \* what made main return Err, "none" otherwise
    report,                       \* what print_confirmed_leaks wrote to stdout
    exit_status,                  \* the status the process ended with
    stdout,                       \* the documents written to the standard output
    \* ---- one call of string_literal_to_bytes (SpecDecode)
    dec_literal,                  \* string_literal, the literal as written
    dec_mode,                     \* wide_char_mode, an Option<WideCharMode>
    dec_pc,                       \* "idle", "call", "returned", "panicked"
    dec_parsed,                   \* what parse_string_literal gave
    dec_decoded,                  \* what process_escape_sequences gave
    dec_bytes,                    \* what string_literal_to_bytes gave
    \* ---- the suppression filters of main (SpecFilter)
    suppressions,                 \* Option<Suppressions>
    all_compile_commands,         \* compilation_db.get_all_compile_commands()
    filtered_commands,            \* what filter_suppressed_files returned
    extracted_leaks,              \* what extract_artifacts_from_source_files returned
    filtered_leaks,               \* potential_leaks after the passes run so far
    filter_pc,                    \* "idle", "parse", "files", "origin", "value", "done", "failed"
    suppressions_yaml,            \* the suppressions file as read and deserialized
    \* ---- one call of gather_entities_by_kind (SpecGather)
    walk_root,                    \* root_entity
    walk_filter,                  \* entity_kind_filter
    walk_ignore,                  \* ignore_system_headers
    walk_entities,                \* the Vec<Entity> returned
    walk_pc,                      \* "idle", "call", "returned"
    \* ---- a FileListDatabase (SpecFileList)
    source_paths,                 \* file_paths given to FileListDatabase::new
    list_arguments,               \* arguments given to FileListDatabase::new
    file_paths,                   \* self.file_paths, the BTreeSet in its order
    list_commands,                \* what get_all_compile_commands returned
    list_pc,                      \* "idle", "new", "built", "returned"
    \* ---- the deduplication of candidates in main (SpecDedup)
    dedup_entities,               \* the entities the candidates come from
    dedup_leaks,                  \* potential_leaks, their conversions
    dedup_set,                    \* HashSet::from_iter(potential_leaks)
    dedup_pc                      \* "idle", "convert", "collect", "done"

scanVars == <<ignore_multiple_declarations, potential_leaks, bin_data, scan_pc,
              leak_desc, index_parts, byte_to_leaks, scan_parts, confirmed_leaks>>

extractVars == <<minimum_leak_size, cfg_windows, ignore_system_headers,
                 compile_commands, ext_pc, next_cmd, extract_accum,
                 use_file_path_from_arguments, parse_requests, error_context>>

mainVars == <<stage, failure, report, exit_status, stdout>>

decodeVars == <<dec_literal, dec_mode, dec_pc, dec_parsed, dec_decoded, dec_bytes>>

\* The variables outside the scanner, the extraction and main.
filterVars == <<suppressions, all_compile_commands, filtered_commands,
                extracted_leaks, filtered_leaks, filter_pc, suppressions_yaml>>

walkVars == <<walk_root, walk_filter, walk_ignore, walk_entities, walk_pc>>

listVars == <<source_paths, list_arguments, file_paths, list_commands, list_pc>>

dedupVars == <<dedup_entities, dedup_leaks, dedup_set, dedup_pc>>

otherVars == <<decodeVars, filterVars, walkVars, listVars, dedupVars>>

vars == <<scanVars, extractVars, mainVars, otherVars>>

(***************************************************************************)
(* Bounds of the model.                                                    *)
(***************************************************************************)
MaxLeaks == 2
MaxBin == 3
MaxUnits == 2
MaxLiteral == 3
MaxOctalPayload == 5
MaxEscapePayload == 3
MaxUnicodePayload == 2
MaxChildren == 3
MaxDepth == 3

\* Sequences over S of length at most n.
SeqUpTo(S, n) == UNION {[1..k -> S] : k \in 0..n}

\* The byte values the binary is made of (0x61 'a', 0x62 'b').
ByteValues == {97, 98}

\* The canonicalized path of the target binary, shared by every confirmed leak.
shared_binary_file_path == "a.out"

(***************************************************************************)
(* PotentialLeak: data, bytes, declaration_metadata.  The field data is    *)
(* named leaked_information in main.rs and information_leak.rs and data in *)
(* information_leak/.  Source files are numbered in path order.            *)
(***************************************************************************)
PotentialLeak(info, bytes, file, line) ==
    [data |-> info, bytes |-> bytes,
     declaration_metadata |-> [file |-> file, line |-> line]]

\* The candidates the scanner is exercised with: one value declared on two
\* lines, a value that is a prefix of another on the same line, another first
\* byte, an empty pattern, a second source file.
PotentialLeakPool ==
    { PotentialLeak("a",  <<97>>,     1, 1),
      PotentialLeak("a",  <<97>>,     1, 2),
      PotentialLeak("ab", <<97, 98>>, 1, 1),
      PotentialLeak("ba", <<98, 97>>, 1, 2),
      PotentialLeak("",   <<>>,       1, 1),
      PotentialLeak("b",  <<98>>,     2, 1) }

\* PartialEq for PotentialLeak: equality on the leaked information alone.
PotentialLeakEq(a, b) == a.data = b.data

\* HashSet::from_iter(potential_leaks): an element equal to one already in the
\* set is not inserted, so the first occurrence of each value is kept.
RECURSIVE HashSetFromIter(_)
HashSetFromIter(leaks) ==
    IF leaks = <<>> THEN <<>>
    ELSE LET n == Len(leaks)
             rest == HashSetFromIter(SubSeq(leaks, 1, n - 1))
         IN IF \E k \in 1..Len(rest) : PotentialLeakEq(rest[k], leaks[n])
            THEN rest
            ELSE Append(rest, leaks[n])

\* The orders in which a HashSet may hand out its elements (the hasher is
\* seeded per process): every arrangement of them.
IterationOrders(s) ==
    { [k \in 1..Len(s) |-> s[p[k]]] : p \in Permutations(1..Len(s)) }

(***************************************************************************)
(* The first-byte index: a HashMap<u8, Vec<PotentialLeak>>, a function     *)
(* whose domain is the set of keys present.                                *)
(***************************************************************************)
HashMapNew == [k \in {} |-> <<>>]

\* Mutant of IndexFold: a leak without a first byte is pushed under 0x61.
IndexFoldEmptyUnderA(accum, potential_leak) ==
    LET key == IF potential_leak.bytes = <<>> THEN 97 ELSE potential_leak.bytes[1]
    IN IF key \in DOMAIN accum
       THEN [accum EXCEPT ![key] = Append(@, potential_leak)]
       ELSE accum @@ (key :> <<potential_leak>>)

\* The fold closure: push the leak under its first byte, if it has one.
IndexFold(accum, potential_leak) ==
    IF potential_leak.bytes = <<>> THEN accum
    ELSE LET key == potential_leak.bytes[1]
         IN IF key \in DOMAIN accum
            THEN [accum EXCEPT ![key] = Append(@, potential_leak)]
            ELSE accum @@ (key :> <<potential_leak>>)

\* Mutant of IndexReduce: a key present on both sides keeps other's vector only.
IndexReduceOverwrite(accum, other) ==
    [k \in DOMAIN accum \cup DOMAIN other |->
        IF k \in DOMAIN other THEN other[k] ELSE accum[k]]

\* The reduce closure: append other's vectors to accum's, key by key.
IndexReduce(accum, other) ==
    [k \in DOMAIN accum \cup DOMAIN other |->
        IF k \in DOMAIN accum
        THEN IF k \in DOMAIN other THEN accum[k] \o other[k] ELSE accum[k]
        ELSE other[k]]

(***************************************************************************)
(* ConfirmedLeak and the BTreeSet that holds them.  Ord and Eq compare the *)
(* location only (source file, source line, binary file, binary offset).   *)
(***************************************************************************)
ConfirmedLeak(leak, i) ==
    [data |-> leak.data,
     location |-> [source |-> leak.declaration_metadata,
                   binary |-> [file |-> shared_binary_file_path, offset |-> i]]]

\* Mutant of ConfirmedLeakEq: the source location is left out of the comparison.
ConfirmedLeakEqBinaryOnly(a, b) == a.location.binary = b.location.binary

ConfirmedLeakEq(a, b) == a.location = b.location

\* BTreeSet::insert: an element equal to one already present is not inserted.
BTreeSetInsert(set, leak) ==
    IF \E x \in set : ConfirmedLeakEq(x, leak) THEN set ELSE set \cup {leak}

\* accum.extend(other): insert every element of other.  The elements of other
\* are pairwise unequal, so the order of the insertions does not matter.
BTreeSetExtend(accum, other) ==
    accum \cup {leak \in other : ~ \E x \in accum : ConfirmedLeakEq(x, leak)}

\* The bounds check and the comparison of the scan closure, offset i 0-based.
CheckBounds(leak, i) == i + Len(leak.bytes) <= Len(bin_data)

\* Mutant of ByteSliceEq: only the first byte is compared.
ByteSliceEqFirstByte(leak, i) == bin_data[i + 1] = leak.bytes[1]

ByteSliceEq(leak, i) == SubSeq(bin_data, i + 1, i + Len(leak.bytes)) = leak.bytes

\* The candidates of a bucket that pass the bounds check and the comparison
\* at offset i, in bucket order.
RECURSIVE BucketMatches(_, _)
BucketMatches(bucket, i) ==
    IF bucket = <<>> THEN <<>>
    ELSE LET leak == Head(bucket)
             rest == BucketMatches(Tail(bucket), i)
         IN IF CheckBounds(leak, i) /\ ByteSliceEq(leak, i)
            THEN <<leak>> \o rest
            ELSE rest

\* The loop over the candidates of one bucket, inserting each match.
RECURSIVE InsertMatches(_, _, _)
InsertMatches(matches, i, set) ==
    IF matches = <<>> THEN set
    ELSE InsertMatches(Tail(matches), i,
                       BTreeSetInsert(set, ConfirmedLeak(Head(matches), i)))

ScanBucket(bucket, i, set) == InsertMatches(BucketMatches(bucket, i), i, set)

\* The map closure at offset i: look the byte up, scan its bucket.
ScanOffset(index, i) ==
    LET byte_value == bin_data[i + 1]
    IN IF byte_value \in DOMAIN index
       THEN ScanBucket(index[byte_value], i, {})
       ELSE {}

(***************************************************************************)
(* Parallel fold/reduce and map/reduce.  The items are split into          *)
(* contiguous parts; a part is computed from its items and adjacent parts  *)
(* are combined, left operand first, in any grouping.                      *)
(***************************************************************************)
Part(lo, hi, done, value) == [lo |-> lo, hi |-> hi, done |-> done, value |-> value]

\* Parts k and k+1 replaced by their combination.
Combine(parts, k, value) ==
    [j \in 1..(Len(parts) - 1) |->
        IF j < k THEN parts[j]
        ELSE IF j = k THEN Part(parts[k].lo, parts[k + 1].hi, TRUE, value)
        ELSE parts[j + 1]]

AllDone(parts) == \A k \in 1..Len(parts) : parts[k].done

(***************************************************************************)
(* The scanner's steps.                                                    *)
(***************************************************************************)
ScanInit(pc) ==
    /\ ignore_multiple_declarations \in BOOLEAN
    /\ potential_leaks \in SeqUpTo(PotentialLeakPool, MaxLeaks)
    /\ bin_data \in SeqUpTo(ByteValues, MaxBin)
    /\ scan_pc = pc
    /\ leak_desc = <<>>
    /\ index_parts = <<>>
    /\ byte_to_leaks = HashMapNew
    /\ scan_parts = <<>>
    /\ confirmed_leaks = {}

\* main: deduplicate the candidates when asked to, then call the scanner.
SelectCollection ==
    /\ scan_pc = "main"
    /\ leak_desc' \in (IF ignore_multiple_declarations
                       THEN IterationOrders(HashSetFromIter(potential_leaks))
                       ELSE {potential_leaks})
    /\ index_parts' = [k \in 1..Len(leak_desc') |-> Part(k, k, FALSE, HashMapNew)]
    /\ scan_pc' = "index"
    /\ UNCHANGED <<ignore_multiple_declarations, potential_leaks, bin_data,
                   byte_to_leaks, scan_parts, confirmed_leaks>>
    /\ UNCHANGED <<extractVars, mainVars, otherVars>>

\* fold: one candidate enters a fresh intermediate map.
FoldLeak(k) ==
    /\ scan_pc = "index"
    /\ ~ index_parts[k].done
    /\ index_parts' = [index_parts EXCEPT
           ![k] = Part(@.lo, @.hi, TRUE, IndexFold(HashMapNew, leak_desc[@.lo]))]
    /\ UNCHANGED <<ignore_multiple_declarations, potential_leaks, bin_data, scan_pc,
                   leak_desc, byte_to_leaks, scan_parts, confirmed_leaks>>
    /\ UNCHANGED <<extractVars, mainVars, otherVars>>

\* reduce: two adjacent intermediate maps become one.
ReduceMaps(k) ==
    /\ scan_pc = "index"
    /\ index_parts[k].done /\ index_parts[k + 1].done
    /\ index_parts' = Combine(index_parts, k,
                              IndexReduce(index_parts[k].value, index_parts[k + 1].value))
    /\ UNCHANGED <<ignore_multiple_declarations, potential_leaks, bin_data, scan_pc,
                   leak_desc, byte_to_leaks, scan_parts, confirmed_leaks>>
    /\ UNCHANGED <<extractVars, mainVars, otherVars>>

\* The index is complete: the last reduction is with the identity map.
FinishIndex ==
    /\ scan_pc = "index"
    /\ Len(index_parts) <= 1 /\ AllDone(index_parts)
    /\ byte_to_leaks' = IF index_parts = <<>> THEN HashMapNew
                        ELSE IndexReduce(HashMapNew, index_parts[1].value)
    /\ scan_parts' = [k \in 1..Len(bin_data) |-> Part(k - 1, k - 1, FALSE, {})]
    /\ scan_pc' = "scan"
    /\ UNCHANGED <<ignore_multiple_declarations, potential_leaks, bin_data,
                   leak_desc, index_parts, confirmed_leaks>>
    /\ UNCHANGED <<extractVars, mainVars, otherVars>>

\* map: one offset of the binary is scanned into a worker-local set.
MapOffset(k) ==
    /\ scan_pc = "scan"
    /\ ~ scan_parts[k].done
    /\ scan_parts' = [scan_parts EXCEPT
           ![k] = Part(@.lo, @.hi, TRUE, ScanOffset(byte_to_leaks, @.lo))]
    /\ UNCHANGED <<ignore_multiple_declarations, potential_leaks, bin_data, scan_pc,
                   leak_desc, index_parts, byte_to_leaks, confirmed_leaks>>
    /\ UNCHANGED <<extractVars, mainVars, otherVars>>

\* reduce: two adjacent worker-local sets are merged.
ReduceSets(k) ==
    /\ scan_pc = "scan"
    /\ scan_parts[k].done /\ scan_parts[k + 1].done
    /\ scan_parts' = Combine(scan_parts, k,
                             BTreeSetExtend(scan_parts[k].value, scan_parts[k + 1].value))
    /\ UNCHANGED <<ignore_multiple_declarations, potential_leaks, bin_data, scan_pc,
                   leak_desc, index_parts, byte_to_leaks, confirmed_leaks>>
    /\ UNCHANGED <<extractVars, mainVars, otherVars>>

\* The scan is complete: the last merge is with the identity set.
FinishScan ==
    /\ scan_pc = "scan"
    /\ Len(scan_parts) <= 1 /\ AllDone(scan_parts)
    /\ confirmed_leaks' = IF scan_parts = <<>> THEN {}
                          ELSE BTreeSetExtend({}, scan_parts[1].value)
    /\ scan_pc' = "done"
    /\ UNCHANGED <<ignore_multiple_declarations, potential_leaks, bin_data,
                   leak_desc, index_parts, byte_to_leaks, scan_parts>>
    /\ UNCHANGED <<extractVars, mainVars, otherVars>>

ScanNext ==
    \/ SelectCollection
    \/ \E k \in 1..Len(index_parts) : FoldLeak(k)
    \/ \E k \in 1..(Len(index_parts) - 1) : ReduceMaps(k)
    \/ FinishIndex
    \/ \E k \in 1..Len(scan_parts) : MapOffset(k)
    \/ \E k \in 1..(Len(scan_parts) - 1) : ReduceSets(k)
    \/ FinishScan

(***************************************************************************)
(* Strings.  A string is the sequence of its chars, a char the number of   *)
(* its code point; str::len and the slices &s[a..b] count UTF-8 bytes,     *)
(* chars().enumerate() and chars().nth() count chars.                      *)
(***************************************************************************)
Ok(v) == [tag |-> "Ok", value |-> v]
Err == [tag |-> "Err"]
Panic == [tag |-> "Panic"]

\* Option<String>
Some(v) == [some |-> TRUE, value |-> v]
None == [some |-> FALSE]

\* char::len_utf8
LenUtf8(c) == IF c < 128 THEN 1 ELSE IF c < 2048 THEN 2 ELSE IF c < 65536 THEN 3 ELSE 4

\* The number of bytes of the first k chars of string.
RECURSIVE BytesBefore(_, _)
BytesBefore(string, k) ==
    IF k = 0 THEN 0 ELSE BytesBefore(string, k - 1) + LenUtf8(string[k])

\* str::len
StrLen(string) == BytesBefore(string, Len(string))

\* &string[start..end]: the chars between two byte offsets; it panics when
\* start > end, when end is past the last byte, or when an offset falls
\* inside a char.
ByteSlice(string, start, end) ==
    LET at(b) == {k \in 0..Len(string) : BytesBefore(string, k) = b}
    IN IF start <= end /\ at(start) # {} /\ at(end) # {}
       THEN Ok(SubSeq(string, (CHOOSE k \in at(start) : TRUE) + 1,
                              CHOOSE k \in at(end) : TRUE))
       ELSE Panic

\* char::is_digit(8)
IsOctalDigit(c) == c \in 48..55

RECURSIVE OctalValue(_)
OctalValue(digits) ==
    IF digits = <<>> THEN 0
    ELSE 8 * OctalValue(SubSeq(digits, 1, Len(digits) - 1)) + (digits[Len(digits)] - 48)

\* u8::from_str_radix(src, 8): an optional '+', then octal digits only, at
\* least one, and a value that fits in 8 bits.
FromStrRadix8(src) ==
    LET digits == IF Len(src) > 1 /\ src[1] = 43 THEN Tail(src) ELSE src
    IN IF digits = <<>> \/ \E k \in 1..Len(digits) : ~ IsOctalDigit(digits[k])
       THEN Err
       ELSE IF OctalValue(digits) > 255 THEN Err ELSE Ok(OctalValue(digits))

\* The match on the char that follows a backslash, octal digits apart.
SimpleEscape(first_char) ==
    CASE first_char = 97  -> 7       \* \a
      [] first_char = 98  -> 8       \* \b
      [] first_char = 116 -> 9       \* \t
      [] first_char = 110 -> 10      \* \n
      [] first_char = 118 -> 11      \* \v
      [] first_char = 102 -> 12      \* \f
      [] first_char = 114 -> 13      \* \r
      [] OTHER -> first_char

\* The loop of process_escape_sequences over chars().enumerate(): position
\* counts chars from 0, owned is the Option<String> built so far.  The
\* result is Ok(string), Err for None, or Panic.
RECURSIVE EscapeLoop(_, _, _, _)
EscapeLoop(string, position, skip_until, owned) ==
    IF position >= Len(string)
    THEN Ok(IF owned.some THEN owned.value ELSE string)
    ELSE IF position < skip_until
    THEN EscapeLoop(string, position + 1, skip_until, owned)
    ELSE IF string[position + 1] # 92
    THEN EscapeLoop(string, position + 1, skip_until,
                    IF owned.some THEN Some(Append(owned.value, string[position + 1]))
                    ELSE owned)
    ELSE LET prefix == ByteSlice(string, 0, position)
         IN IF ~ owned.some /\ prefix.tag = "Panic" THEN Panic
            ELSE LET b == IF owned.some THEN owned.value ELSE prefix.value
                 IN IF position + 2 > Len(string) THEN Err
                    ELSE LET first_char == string[position + 2]
                         IN IF IsOctalDigit(first_char)
                            THEN LET start_position == position + 1
                                     second == /\ position + 3 <= Len(string)
                                               /\ IsOctalDigit(string[position + 3])
                                     third == /\ second
                                              /\ position + 4 <= Len(string)
                                              /\ IsOctalDigit(string[position + 4])
                                     end_position == start_position + 1
                                                       + (IF second THEN 1 ELSE 0)
                                                       + (IF third THEN 1 ELSE 0)
                                     digits == ByteSlice(string, start_position, end_position)
                                 IN IF digits.tag = "Panic" THEN Panic
                                    ELSE IF FromStrRadix8(digits.value).tag = "Err" THEN Err
                                    ELSE EscapeLoop(string, position + 1, end_position,
                                             Some(Append(b, FromStrRadix8(digits.value).value)))
                            ELSE EscapeLoop(string, position + 1, position + 2,
                                            Some(Append(b, SimpleEscape(first_char))))

\* Mutant of process_escape_sequences: the string is returned as written.
process_escape_sequences_verbatim(string) == Ok(string)

process_escape_sequences(string) == EscapeLoop(string, 0, 0, None)

(***************************************************************************)
(* Encodings of a decoded string.                                          *)
(***************************************************************************)
\* String::as_bytes: UTF-8.
Utf8Char(c) ==
    IF c < 128 THEN <<c>>
    ELSE IF c < 2048 THEN <<192 + (c \div 64), 128 + (c % 64)>>
    ELSE IF c < 65536
    THEN <<224 + (c \div 4096), 128 + ((c \div 64) % 64), 128 + (c % 64)>>
    ELSE <<240 + (c \div 262144), 128 + ((c \div 4096) % 64),
           128 + ((c \div 64) % 64), 128 + (c % 64)>>

\* encode_utf16 and u16::to_le_bytes.
Utf16LeChar(c) ==
    LET unit(u) == <<u % 256, u \div 256>>
    IN IF c < 65536 THEN unit(c)
       ELSE unit(55296 + ((c - 65536) \div 1024)) \o unit(56320 + ((c - 65536) % 1024))

\* encode_utf32 and u32::to_le_bytes.
Utf32LeChar(c) ==
    <<c % 256, (c \div 256) % 256, (c \div 65536) % 256, c \div 16777216>>

RECURSIVE Encode(_, _)
Encode(string, encoding) ==
    IF string = <<>> THEN <<>>
    ELSE (CASE encoding = "Utf8"  -> Utf8Char(Head(string))
            [] encoding = "Utf16" -> Utf16LeChar(Head(string))
            [] encoding = "Utf32" -> Utf32LeChar(Head(string)))
         \o Encode(Tail(string), encoding)

(***************************************************************************)
(* parse_string_literal: the encoding named by the prefix and the content  *)
(* between the quotes.  Ok([encoding, content]), Err, or Panic when the    *)
(* slice of the content is out of range.                                   *)
(***************************************************************************)
Parsed(encoding, content) ==
    IF content.tag = "Panic" THEN Panic
    ELSE Ok([encoding |-> encoding, content |-> content.value])

parse_string_literal(string_literal) ==
    LET len == StrLen(string_literal)
    IN IF string_literal = <<>> THEN Err
       ELSE CASE string_literal[1] = 34 ->       \* '"'
                   Parsed("Unspecified", ByteSlice(string_literal, 1, len - 1))
              [] string_literal[1] = 76 ->       \* 'L'
                   Parsed("Wide", ByteSlice(string_literal, 2, len - 1))
              [] string_literal[1] = 85 ->       \* 'U'
                   Parsed("Utf32", ByteSlice(string_literal, 2, len - 1))
              [] string_literal[1] = 117 ->      \* 'u'
                   IF Len(string_literal) < 3 THEN Err
                   ELSE IF string_literal[2] = 56 /\ string_literal[3] = 34
                   THEN Parsed("Utf8", ByteSlice(string_literal, 3, len - 1))
                   ELSE Parsed("Utf16", ByteSlice(string_literal, 2, len - 1))
              [] OTHER -> Err

\* string_literal_to_bytes; wide_char_mode is an Option<WideCharMode>.
\* Mutant of unwrap_or_default_mode: the platform decides, whatever is asked.
platform_mode(wide_char_mode) == IF cfg_windows THEN "Windows" ELSE "Unix"

\* wide_char_mode.unwrap_or(the platform's mode)
unwrap_or_default_mode(wide_char_mode) ==
    IF wide_char_mode.some THEN wide_char_mode.value
    ELSE IF cfg_windows THEN "Windows" ELSE "Unix"

string_literal_to_bytes(string_literal, wide_char_mode) ==
    LET mode == unwrap_or_default_mode(wide_char_mode)
        parsed == parse_string_literal(string_literal)
    IN IF parsed.tag # "Ok" THEN parsed
       ELSE LET decoded == process_escape_sequences(parsed.value.content)
                string_encoding == parsed.value.encoding
            IN IF decoded.tag # "Ok" THEN decoded
               ELSE Ok(Encode(decoded.value,
                        CASE string_encoding = "Unspecified" -> "Utf8"
                          [] string_encoding = "Wide" ->
                               IF mode = "Windows" THEN "Utf16" ELSE "Utf32"
                          [] OTHER -> string_encoding))

(***************************************************************************)
(* Entities of a parsed translation unit.  An entity has a kind, an        *)
(* optional display name, an optional location whose file is optional and  *)
(* may fail to canonicalize, and children.                                 *)
(***************************************************************************)
Entity(kind, display_name, location, in_system_header, children) ==
    [kind |-> kind, display_name |-> display_name, location |-> location,
     in_system_header |-> in_system_header, children |-> children]

\* A location in a file that exists.
Location(file, line) ==
    Some([file |-> Some([path |-> file, canonicalize |-> Ok(file)]), line |-> line])

\* prefix"content"
Quoted(prefix, content) == prefix \o <<34>> \o content \o <<34>>

StringLiteral(display_name, line) ==
    Entity("StringLiteral", Some(display_name), Location("main.cc", line), FALSE, <<>>)

\* "%s\n"
PercentSNewline == StringLiteral(Quoted(<<>>, <<37, 115, 92, 110>>), 1)
\* L"%s\n"
WidePercentSNewline == StringLiteral(Quoted(<<76>>, <<37, 115, 92, 110>>), 2)
\* "ab"
Ab == StringLiteral(Quoted(<<>>, <<97, 98>>), 3)
\* "abcd"
Abcd == StringLiteral(Quoted(<<>>, <<97, 98, 99, 100>>), 4)
\* "abc\ with the closing quote taken by the backslash's slice
InvalidEscape == StringLiteral(Quoted(<<>>, <<97, 98, 99, 92>>), 5)
\* "e-acute\n": a two-byte char before an escape sequence
NonAscii == StringLiteral(Quoted(<<>>, <<233, 92, 110>>), 6)
\* a display name of one quote: shorter than two quotes
LoneQuote == StringLiteral(<<34>>, 8)
\* "abcd" declared in a system header
SystemHeaderLiteral ==
    Entity("StringLiteral", Some(Quoted(<<>>, <<97, 98, 99, 100>>)),
           Location("stdio.h", 1), TRUE, <<>>)
\* a literal without a location, and one whose file cannot be canonicalized
NoLocation == Entity("StringLiteral", Some(Quoted(<<>>, <<97, 98, 99, 100>>)), None, FALSE, <<>>)
NoCanonicalPath ==
    Entity("StringLiteral", Some(Quoted(<<>>, <<97, 98, 99, 100>>)),
           Some([file |-> Some([path |-> "gone.cc", canonicalize |-> Err]), line |-> 1]),
           FALSE, <<>>)
\* struct Abcd { ... } holding a literal
StructAbcd ==
    Entity("StructDecl", Some(<<97, 98, 99, 100>>), Location("main.cc", 7), FALSE, <<Abcd>>)

\* A PathBuf: to_str is None for a path that is not UTF-8.
Path(string) == [to_str |-> Some(string)]

\* PathBuf::default(): the empty path.
PathBufDefault == Path(<<>>)

\* Path::display of a UTF-8 path.
Display(path) == path.to_str.value

\* Ord of two strings (the BTreeSet<PathBuf> of FileListDatabase).
RECURSIVE StrLess(_, _)
StrLess(a, b) ==
    IF b = <<>> THEN FALSE
    ELSE IF a = <<>> THEN TRUE
    ELSE IF a[1] # b[1] THEN a[1] < b[1]
    ELSE StrLess(Tail(a), Tail(b))

\* A compile command: the file, the arguments, whether libclang parses the
\* file, and the root entity of its translation unit.

CompileCommand(filename, arguments, parses, children) ==
    [filename |-> filename, arguments |-> arguments, parses |-> parses,
     entity |-> Entity("TranslationUnit", None, None, FALSE, children)]

\* "x.c" for a one-letter stem.
FileName(stem) == Path(<<stem, 46, 99>>)

\* clang's CompileCommand::get_arguments: compiler, flags, the file last.
CompilerArguments(filename) == <<<<99, 99>>, <<45, 99>>, Display(filename)>>

\* FileListDatabase.arguments: the arguments shared by all listed files.
SharedArguments == <<<<45, 68, 88>>>>

\* is_file_path_in_arguments: true for CompileCommandsDatabase (arguments
\* from the database), false for FileListDatabase (the shared arguments).
Arguments(is_file_path_in_arguments, filename) ==
    IF is_file_path_in_arguments THEN CompilerArguments(filename)
    ELSE SharedArguments

CommandOf(in_arguments, stem, parses, children) ==
    CompileCommand(FileName(stem), Arguments(in_arguments, FileName(stem)),
                   parses, children)

CompileCommandPool(in_arguments) ==
    { CommandOf(in_arguments, 97, TRUE, <<PercentSNewline, Ab, WidePercentSNewline>>),
      CommandOf(in_arguments, 98, TRUE, <<StructAbcd, InvalidEscape, NoLocation>>),
      CommandOf(in_arguments, 99, TRUE, <<SystemHeaderLiteral, NoCanonicalPath, Ab>>),
      CommandOf(in_arguments, 100, TRUE, <<Abcd, NonAscii>>),
      CommandOf(in_arguments, 101, FALSE, <<>>),
      CommandOf(in_arguments, 102, TRUE, <<Abcd, LoneQuote, Ab>>) }

\* get_all_compile_commands: the database's order, or the BTreeSet's order
\* of distinct paths for a file list.
CompileCommandLists(in_arguments) ==
    { cmds \in SeqUpTo(CompileCommandPool(in_arguments), MaxUnits) :
        in_arguments \/ \A i \in 1..(Len(cmds) - 1) :
            StrLess(Display(cmds[i].filename), Display(cmds[i + 1].filename)) }

\* options.minimum_leak_size.unwrap_or(4)
DefaultMinimumLeakSize == 4

\* The values of --minimum-leak-size the model runs with.
MinimumLeakSizes == {0, 3, DefaultMinimumLeakSize, 5}

(***************************************************************************)
(* gather_entities_by_kind: the entities of the wanted kinds, in           *)
(* pre-order, without the subtrees of children in system headers.          *)
(***************************************************************************)
RECURSIVE gather_entities_by_kind_rec(_, _, _)
RECURSIVE GatherChildren(_, _, _)
gather_entities_by_kind_rec(root_entity, entity_kind_filter, ignore_headers) ==
    (IF root_entity.kind \in entity_kind_filter THEN <<root_entity>> ELSE <<>>)
        \o GatherChildren(root_entity.children, entity_kind_filter, ignore_headers)

GatherChildren(children, entity_kind_filter, ignore_headers) ==
    IF children = <<>> THEN <<>>
    ELSE (IF ignore_headers /\ Head(children).in_system_header THEN <<>>
          ELSE gather_entities_by_kind_rec(Head(children), entity_kind_filter,
                                           ignore_headers))
         \o GatherChildren(Tail(children), entity_kind_filter, ignore_headers)

\* Mutant of gather_entities_by_kind: the flag is not passed on.
gather_entities_of_all_files(root_entity, entity_kind_filter, ignore_headers) ==
    gather_entities_by_kind_rec(root_entity, entity_kind_filter, FALSE)

gather_entities_by_kind(root_entity, entity_kind_filter, ignore_headers) ==
    gather_entities_by_kind_rec(root_entity, entity_kind_filter, ignore_headers)

\* The subtrees the walk is run on: literals and declarations inside and
\* outside system headers, nested up to two levels.
Node(kind, line, in_system_header, children) ==
    Entity(kind, Some(<<97>>), Location("main.cc", line), in_system_header, children)

SubtreePool ==
    { Node("StringLiteral", 1, FALSE, <<>>),
      Node("StringLiteral", 2, TRUE, <<>>),
      Node("StructDecl", 3, FALSE, <<Node("StringLiteral", 4, FALSE, <<>>),
                                     Node("StringLiteral", 5, TRUE, <<>>)>>),
      Node("StructDecl", 6, TRUE, <<Node("StringLiteral", 7, FALSE, <<>>)>>),
      Node("FunctionDecl", 8, FALSE,
           <<Node("StructDecl", 9, TRUE, <<Node("StringLiteral", 10, FALSE, <<>>)>>),
             Node("StringLiteral", 11, FALSE, <<>>)>>) }

KindFilters == {{"StringLiteral"}, {"StringLiteral", "StructDecl", "ClassDecl"}}

GatherInit ==
    /\ \E kind \in {"TranslationUnit", "StringLiteral"}, in_system_header \in BOOLEAN,
          children \in SeqUpTo(SubtreePool, MaxChildren) :
            walk_root = Node(kind, 0, in_system_header, children)
    /\ walk_filter \in KindFilters
    /\ walk_ignore \in BOOLEAN
    /\ walk_entities = <<>>
    /\ walk_pc = "call"

GatherEntitiesByKind ==
    /\ walk_pc = "call"
    /\ walk_entities' = gather_entities_by_kind(walk_root, walk_filter, walk_ignore)
    /\ walk_pc' = "returned"
    /\ UNCHANGED <<walk_root, walk_filter, walk_ignore>>
    /\ UNCHANGED <<scanVars, extractVars, mainVars, decodeVars, filterVars, listVars, dedupVars>>

GatherNext == GatherEntitiesByKind

(***************************************************************************)
(* TryFrom<Entity> for PotentialLeak.                                      *)
(***************************************************************************)
\* Mutant of LiteralData: the literal as written, prefix and quotes included.
LiteralDataAsWritten(leaked_information, parsed) == leaked_information

\* let (_, string_content) = parse_string_literal(..)?; data: string_content
LiteralData(leaked_information, parsed) == parsed.value.content

try_from(entity) ==
    IF ~ entity.location.some THEN Err
    ELSE IF ~ entity.location.value.file.some THEN Err
    ELSE LET location == entity.location.value
             file_location == location.file.value
         IN CASE entity.kind = "StringLiteral" ->
                   IF ~ entity.display_name.some THEN Err
                   ELSE LET leaked_information == entity.display_name.value
                            parsed == parse_string_literal(leaked_information)
                            bytes == string_literal_to_bytes(leaked_information, None)
                        IN IF parsed.tag # "Ok" THEN parsed
                           ELSE IF bytes.tag # "Ok" THEN bytes
                           ELSE IF file_location.canonicalize.tag # "Ok" THEN Err
                           ELSE Ok([data_type |-> "StringLiteral",
                                    data |-> LiteralData(leaked_information, parsed),
                                    bytes |-> bytes.value,
                                    declaration_metadata |->
                                        [file |-> file_location.canonicalize.value,
                                         line |-> location.line]])
              [] entity.kind \in {"StructDecl", "ClassDecl"} ->
                   LET leaked_information == IF entity.display_name.some
                                             THEN entity.display_name.value ELSE <<>>
                   IN IF file_location.canonicalize.tag # "Ok" THEN Err
                      ELSE Ok([data_type |-> IF entity.kind = "StructDecl"
                                             THEN "StructName" ELSE "ClassName",
                               bytes |-> Encode(leaked_information, "Utf8"),
                               data |-> leaked_information,
                               declaration_metadata |->
                                   [file |-> file_location.canonicalize.value,
                                    line |-> location.line]])
              [] OTHER -> Err

(***************************************************************************)
(* extract_artifacts_from_source_files.                                    *)
(***************************************************************************)
\* Mutant of KeepLeak: a pattern of exactly the minimum size is dropped.
KeepLeakStrictlyLonger(potential_leak, minimum) == Len(potential_leak.bytes) > minimum

\* The size test of the filter_map closure.
KeepLeak(potential_leak, minimum) == Len(potential_leak.bytes) >= minimum

\* The filter_map closure over the literals of one translation unit: the
\* leaks kept, in order, or Panic when a conversion panics.
RECURSIVE FilterMap(_, _)
FilterMap(string_literals, minimum) ==
    IF string_literals = <<>> THEN Ok(<<>>)
    ELSE LET leak_res == try_from(Head(string_literals))
         IN IF leak_res.tag = "Panic" THEN Panic
            ELSE LET rest == FilterMap(Tail(string_literals), minimum)
                 IN IF rest.tag = "Panic" THEN Panic
                    ELSE IF leak_res.tag = "Ok" /\ KeepLeak(leak_res.value, minimum)
                    THEN Ok(<<leak_res.value>> \o rest.value)
                    ELSE rest

\* The string literals that the closure of try_fold gathers from a unit.
StringLiterals(compile_cmd) ==
    gather_entities_by_kind(compile_cmd.entity, {"StringLiteral"}, ignore_system_headers)

ExtractInit ==
    /\ minimum_leak_size \in MinimumLeakSizes
    /\ cfg_windows \in BOOLEAN
    /\ ignore_system_headers \in BOOLEAN
    /\ use_file_path_from_arguments \in BOOLEAN
    /\ compile_commands \in CompileCommandLists(use_file_path_from_arguments)
    /\ ext_pc = "start"
    /\ next_cmd = 1
    /\ extract_accum = <<>>
    /\ parse_requests = <<>>
    /\ error_context = None

\* Clang::new: libclang is loaded, or the function returns the error.
ClangNew ==
    /\ ext_pc = "start"
    /\ \E loaded \in BOOLEAN : ext_pc' = IF loaded THEN "fold" ELSE "failed"
    /\ UNCHANGED <<minimum_leak_size, cfg_windows, ignore_system_headers,
                   use_file_path_from_arguments, compile_commands, next_cmd,
                   extract_accum, parse_requests, error_context>>
    /\ UNCHANGED <<scanVars, mainVars, otherVars>>

\* Mutant of ParserFilePath: the file of the command in both modes.
ParserFilePathFromCommand(in_arguments, compile_cmd) == compile_cmd.filename

\* let file_path = if use_file_path_from_arguments { PathBuf::default() }
\*                 else { compile_cmd.filename }
ParserFilePath(in_arguments, compile_cmd) ==
    IF in_arguments THEN PathBufDefault ELSE compile_cmd.filename

\* index.parser(&file_path).arguments(&compile_cmd.arguments)
ParseRequest(in_arguments, compile_cmd) ==
    [file_path |-> ParserFilePath(in_arguments, compile_cmd),
     arguments |-> compile_cmd.arguments]

\* with_context: "Failed to parse source file '{}'" of file_path.display()
ParseErrorContext(file_path) == Some(Display(file_path))

\* One call of the try_fold closure: a unit that does not parse ends the fold
\* with an error, a conversion that panics ends the process, and otherwise
\* the unit's kept leaks are appended.
FoldCompileCommand ==
    /\ ext_pc = "fold"
    /\ next_cmd <= Len(compile_commands)
    /\ LET compile_cmd == compile_commands[next_cmd]
           request == ParseRequest(use_file_path_from_arguments, compile_cmd)
           kept == FilterMap(StringLiterals(compile_cmd), minimum_leak_size)
       IN /\ parse_requests' = Append(parse_requests, request)
          /\ IF ~ compile_cmd.parses
             THEN /\ ext_pc' = "failed"
                  /\ error_context' = ParseErrorContext(request.file_path)
                  /\ UNCHANGED <<next_cmd, extract_accum>>
             ELSE IF kept.tag = "Panic"
             THEN /\ ext_pc' = "panicked"
                  /\ UNCHANGED <<next_cmd, extract_accum, error_context>>
             ELSE /\ extract_accum' = extract_accum \o kept.value
                  /\ next_cmd' = next_cmd + 1
                  /\ ext_pc' = ext_pc
                  /\ UNCHANGED error_context
    /\ UNCHANGED <<minimum_leak_size, cfg_windows, ignore_system_headers,
                   use_file_path_from_arguments, compile_commands>>
    /\ UNCHANGED <<scanVars, mainVars, otherVars>>

\* try_fold is through the compile commands: Ok(accum) is returned.
FinishExtract ==
    /\ ext_pc = "fold"
    /\ next_cmd > Len(compile_commands)
    /\ ext_pc' = "done"
    /\ UNCHANGED <<minimum_leak_size, cfg_windows, ignore_system_headers,
                   use_file_path_from_arguments, compile_commands, next_cmd,
                   extract_accum, parse_requests, error_context>>
    /\ UNCHANGED <<scanVars, mainVars, otherVars>>

ExtractNext ==
    \/ ClangNew
    \/ FoldCompileCommand
    \/ FinishExtract

(***************************************************************************)
(* Reference definitions for the scanner's properties: a comparison of     *)
(* every candidate at every offset, without the index.                     *)
(***************************************************************************)
Offsets == 0..(Len(bin_data) - 1)

NaiveMatch(leak, i) ==
    /\ i + Len(leak.bytes) <= Len(bin_data)
    /\ \A j \in 1..Len(leak.bytes) : bin_data[i + j] = leak.bytes[j]

RECURSIVE NaiveMatches(_, _)
NaiveMatches(leaks, i) ==
    IF leaks = <<>> THEN <<>>
    ELSE IF NaiveMatch(Head(leaks), i)
         THEN <<Head(leaks)>> \o NaiveMatches(Tail(leaks), i)
         ELSE NaiveMatches(Tail(leaks), i)

RECURSIVE WithFirstByte(_, _)
WithFirstByte(leaks, b) ==
    IF leaks = <<>> THEN <<>>
    ELSE IF Head(leaks).bytes # <<>> /\ Head(leaks).bytes[1] = b
         THEN <<Head(leaks)>> \o WithFirstByte(Tail(leaks), b)
         ELSE WithFirstByte(Tail(leaks), b)

RECURSIVE NonEmptyLeaks(_)
NonEmptyLeaks(leaks) ==
    IF leaks = <<>> THEN <<>>
    ELSE IF Head(leaks).bytes # <<>>
         THEN <<Head(leaks)>> \o NonEmptyLeaks(Tail(leaks))
         ELSE NonEmptyLeaks(Tail(leaks))

\* How many times x occurs in the sequence s.
Count(s, x) == Cardinality({k \in 1..Len(s) : s[k] = x})

Bucket(index, b) == IF b \in DOMAIN index THEN index[b] ELSE <<>>

\* The sets of confirmed leaks that exist in the current state.
SetsInFlight ==
    {scan_parts[k].value : k \in {j \in 1..Len(scan_parts) : scan_parts[j].done}}
        \cup {confirmed_leaks}

\* The (source, binary) locations at which some candidate's pattern, of at
\* least one byte, matches, offsets lo..hi.
NaiveLocations(lo, hi) ==
    {[source |-> potential_leaks[ki[1]].declaration_metadata,
      binary |-> [file |-> shared_binary_file_path, offset |-> ki[2]]] :
        ki \in {x \in (1..Len(potential_leaks)) \X (lo..hi) :
                   /\ potential_leaks[x[1]].bytes # <<>>
                   /\ NaiveMatch(potential_leaks[x[1]], x[2])}}

\* The leaked values that match somewhere in the binary, and where.
MatchOffsets(info) ==
    {i \in Offsets : \E k \in 1..Len(potential_leaks) :
        /\ potential_leaks[k].data = info
        /\ potential_leaks[k].bytes # <<>>
        /\ NaiveMatch(potential_leaks[k], i)}

MatchedValues ==
    {potential_leaks[k].data : k \in 1..Len(potential_leaks)}

Min(S) == CHOOSE x \in S : \A y \in S : x <= y

\* A sequential scan, offsets ascending, candidates in the given order.
RECURSIVE SequentialScan(_, _, _)
SequentialScan(leaks, i, set) ==
    IF i >= Len(bin_data) THEN set
    ELSE SequentialScan(leaks, i + 1,
             InsertMatches(NaiveMatches(NonEmptyLeaks(leaks), i), i, set))

(***************************************************************************)
(* C1. Scan soundness: every confirmed leak, in a worker-local set or in   *)
(* the final set, carries the data and source location of a candidate      *)
(* whose byte pattern equals the binary's bytes at [offset, offset + len), *)
(* and offset + len does not exceed the size of the binary.                *)
(***************************************************************************)
ScanSoundness ==
    \A set \in SetsInFlight : \A c \in set :
        /\ c.location.binary.file = shared_binary_file_path
        /\ c.location.binary.offset \in Offsets
        /\ \E k \in 1..Len(potential_leaks) :
              /\ potential_leaks[k].data = c.data
              /\ potential_leaks[k].declaration_metadata = c.location.source
              /\ NaiveMatch(potential_leaks[k], c.location.binary.offset)

\* A two-byte pattern confirmed at an offset other than 0, ending where the
\* binary ends.
ScanSoundnessWitness ==
    /\ scan_pc = "done"
    /\ \E c \in confirmed_leaks :
          /\ c.location.binary.offset = 1
          /\ c.data = "ab"
          /\ Len(bin_data) = 3

(***************************************************************************)
(* C2 as stated. Scan completeness for every candidate: at every offset    *)
(* the candidates matched through the index are, occurrence for            *)
(* occurrence, those a comparison of every candidate of the collection at  *)
(* that offset finds.                                                      *)
(***************************************************************************)
ScanEqualsNaiveScan ==
    scan_pc \in {"scan", "done"} =>
        \A i \in Offsets : \A p \in PotentialLeakPool :
            Count(BucketMatches(Bucket(byte_to_leaks, bin_data[i + 1]), i), p)
                = Count(NaiveMatches(leak_desc, i), p)

(***************************************************************************)
(* C2 as amended. Scan completeness for the candidates whose pattern has   *)
(* at least one byte: the index built by fold and reduce holds each of     *)
(* them exactly once, in the bucket of its first byte and in collection    *)
(* order, and at every offset the candidates matched through the index are *)
(* exactly those a comparison of every such candidate at that offset       *)
(* finds. A candidate with an empty pattern is in no bucket.               *)
(***************************************************************************)
IndexHolds(index, leaks) ==
    /\ \A b \in DOMAIN index : index[b] # <<>>
    /\ \A b \in ByteValues \cup DOMAIN index :
          Bucket(index, b) = WithFirstByte(leaks, b)

ScanCompleteness ==
    /\ \A k \in 1..Len(index_parts) :
          index_parts[k].done =>
              IndexHolds(index_parts[k].value,
                         SubSeq(leak_desc, index_parts[k].lo, index_parts[k].hi))
    /\ scan_pc \in {"scan", "done"} =>
          /\ IndexHolds(byte_to_leaks, leak_desc)
          /\ \A i \in Offsets :
                BucketMatches(Bucket(byte_to_leaks, bin_data[i + 1]), i)
                    = NaiveMatches(NonEmptyLeaks(leak_desc), i)

\* Two candidates share a bucket that was put together by a reduction, and
\* both match at one offset.
ScanCompletenessWitness ==
    /\ scan_pc = "done"
    /\ \E b \in DOMAIN byte_to_leaks :
          /\ Len(byte_to_leaks[b]) = 2
          /\ byte_to_leaks[b][1] # byte_to_leaks[b][2]
          /\ \E i \in Offsets : Len(BucketMatches(byte_to_leaks[b], i)) = 2

(***************************************************************************)
(* C5. Unique-by-value policy: with ignore_multiple_declarations the final *)
(* set holds exactly one confirmed leak per leaked value that matches      *)
(* somewhere in the binary, located at the lowest matching offset.         *)
(***************************************************************************)
UniqueByValueReportsOnce ==
    (scan_pc = "done" /\ ignore_multiple_declarations) =>
        \A info \in MatchedValues :
            MatchOffsets(info) # {} =>
                /\ Cardinality({c \in confirmed_leaks : c.data = info}) = 1
                /\ \A c \in confirmed_leaks :
                      c.data = info =>
                          c.location.binary.offset = Min(MatchOffsets(info))

(***************************************************************************)
(* C6. Unique-by-location policy (the default): every worker-local set and *)
(* the final set hold exactly one confirmed leak for each (source          *)
(* location, binary location) pair at which some candidate matches within  *)
(* the offsets the set covers; merging loses none.                         *)
(***************************************************************************)
OnePerLocation(set, lo, hi) ==
    /\ {c.location : c \in set} = NaiveLocations(lo, hi)
    /\ Cardinality(set) = Cardinality(NaiveLocations(lo, hi))

UniqueByLocationComplete ==
    ~ ignore_multiple_declarations =>
        /\ \A k \in 1..Len(scan_parts) :
              scan_parts[k].done =>
                  OnePerLocation(scan_parts[k].value, scan_parts[k].lo, scan_parts[k].hi)
        /\ scan_pc = "done" => OnePerLocation(confirmed_leaks, 0, Len(bin_data) - 1)

\* One value declared on two lines and present at three offsets: six leaks.
UniqueByLocationWitness ==
    /\ scan_pc = "done"
    /\ ~ ignore_multiple_declarations
    /\ Cardinality(confirmed_leaks) = 6
    /\ \A c \in confirmed_leaks : c.data = "a"

(***************************************************************************)
(* C7. No duplicates under the selected policy: no set of confirmed leaks, *)
(* worker-local or merged, holds two elements with equal (source, binary)  *)
(* under unique-by-location, or with equal data under unique-by-value.     *)
(***************************************************************************)
PolicyEq(a, b) ==
    IF ignore_multiple_declarations
    THEN a.data = b.data
    ELSE a.location = b.location

NoDuplicatesUnderPolicy ==
    \A set \in SetsInFlight : \A a \in set : \A b \in set :
        a # b => ~ PolicyEq(a, b)

(***************************************************************************)
(* C8. Determinism: for given candidates and binary the final set is the   *)
(* one a sequential scan over the candidates in their given order yields,  *)
(* whatever the split of the offsets, the bucketing order and the merge    *)
(* order.                                                                  *)
(***************************************************************************)
ReferenceLeaks ==
    SequentialScan(IF ignore_multiple_declarations
                   THEN HashSetFromIter(potential_leaks)
                   ELSE potential_leaks,
                   0, {})

FinalSetDeterministic ==
    scan_pc = "done" => confirmed_leaks = ReferenceLeaks

(***************************************************************************)
(* One call of string_literal_to_bytes.  The literals it is called with:   *)
(* short strings over the prefix characters, and quoted payloads of octal  *)
(* escapes, of one-character escapes and of chars of every UTF-8 width.    *)
(***************************************************************************)
\* " L U u 8 a e-acute
ParseChars == {34, 76, 85, 117, 56, 97, 233}
\* \ 2 7 e-acute
OctalChars == {92, 50, 55, 233}
\* \ a b t n v f r x e-acute
EscapeChars == {92, 97, 98, 116, 110, 118, 102, 114, 120, 233}
\* a \ e-acute U+9999 U+1F602
UnicodeChars == {97, 92, 233, 39321, 128514}

\* " L" U" u" u8"
PrefixPool == {<<34>>, <<76, 34>>, <<85, 34>>, <<117, 34>>, <<117, 56, 34>>}

Closed(prefixes, payloads) ==
    {prefix \o payload \o <<34>> : prefix \in prefixes, payload \in payloads}

LiteralPool ==
    SeqUpTo(ParseChars, MaxLiteral)
        \cup Closed({<<34>>, <<117, 56, 34>>, <<76, 34>>}, SeqUpTo(OctalChars, MaxOctalPayload))
        \cup Closed({<<34>>}, SeqUpTo(EscapeChars, MaxEscapePayload))
        \cup Closed(PrefixPool, SeqUpTo(UnicodeChars, MaxUnicodePayload))

WideCharModes == {None, Some("Windows"), Some("Unix")}

\* A step of the function that an earlier error kept from running.
NotRun == [tag |-> "NotRun"]

DecodeInit ==
    /\ dec_literal \in LiteralPool
    /\ dec_mode \in WideCharModes
    /\ dec_pc = "call"
    /\ dec_parsed = NotRun
    /\ dec_decoded = NotRun
    /\ dec_bytes = NotRun

\* string_literal_to_bytes(dec_literal, dec_mode): the prefix is parsed, the
\* escape sequences of the content are processed, the result is encoded.
StringLiteralToBytes ==
    /\ dec_pc = "call"
    /\ dec_parsed' = parse_string_literal(dec_literal)
    /\ dec_decoded' = IF dec_parsed'.tag = "Ok"
                      THEN process_escape_sequences(dec_parsed'.value.content)
                      ELSE NotRun
    /\ dec_bytes' = string_literal_to_bytes(dec_literal, dec_mode)
    /\ dec_pc' = IF dec_bytes'.tag = "Panic" THEN "panicked" ELSE "returned"
    /\ UNCHANGED <<dec_literal, dec_mode>>
    /\ UNCHANGED <<scanVars, extractVars, mainVars, filterVars, walkVars, listVars, dedupVars>>

DecodeNext == StringLiteralToBytes

(***************************************************************************)
(* The suppression filters of main.rs.  A suppression list holds glob      *)
(* patterns of files and artifact strings; main filters the compile        *)
(* commands by file before the extraction, and the extracted leaks by      *)
(* origin and then by value after it.                                      *)
(***************************************************************************)
Star == 42
QuestionMark == 63

\* glob::Pattern::matches with the default MatchOptions, for patterns of
\* literal characters, ? and *.
RECURSIVE Matches(_, _)
Matches(pattern, file_path) ==
    IF pattern = <<>> THEN file_path = <<>>
    ELSE IF pattern[1] = Star
         THEN \E k \in 0..Len(file_path) :
                 Matches(Tail(pattern), SubSeq(file_path, k + 1, Len(file_path)))
    ELSE IF pattern[1] = QuestionMark
         THEN file_path # <<>> /\ Matches(Tail(pattern), Tail(file_path))
    ELSE /\ file_path # <<>>
         /\ file_path[1] = pattern[1]
         /\ Matches(Tail(pattern), Tail(file_path))

\* Pattern::default(), which parse_suppressions_file stores for a glob that
\* does not parse: the empty pattern.
PatternDefault == <<>>

Suppressions(files, artifacts) == [files |-> files, artifacts |-> artifacts]

LeftBracket == 91
RightBracket == 93

\* glob::Pattern::new: an error for three stars in a row and for a [ that
\* no ] closes; the tokens of the pattern otherwise.
PatternNew(pattern) ==
    IF \/ \E k \in 1..(Len(pattern) - 2) :
              pattern[k] = Star /\ pattern[k + 1] = Star /\ pattern[k + 2] = Star
       \/ \E k \in 1..Len(pattern) :
              /\ pattern[k] = LeftBracket
              /\ \A j \in (k + 1)..Len(pattern) : pattern[j] # RightBracket
    THEN Err
    ELSE Ok(pattern)

\* Mutant of CompileOrDefault: a glob that does not parse becomes *.
CompileOrStar(pattern) ==
    IF PatternNew(pattern).tag = "Ok" THEN PatternNew(pattern).value ELSE <<Star>>

\* The closure that compiles one glob: Pattern::default() after a warning
\* for a glob that does not parse.
CompileOrDefault(pattern) ==
    IF PatternNew(pattern).tag = "Ok" THEN PatternNew(pattern).value
    ELSE PatternDefault

\* Option<Vec<String>>::unwrap_or_default
UnwrapOrDefault(option) == IF option.some THEN option.value ELSE <<>>

\* SuppressionsListYaml
SuppressionsListYaml(files, artifacts) == [files |-> files, artifacts |-> artifacts]

\* parse_suppressions_file on the deserialized file, or on the error of
\* File::open, read_to_end or serde_yaml::from_slice.
parse_suppressions_file(yaml) ==
    IF yaml.tag # "Ok" THEN Err
    ELSE LET listed == UnwrapOrDefault(yaml.value.files)
         IN Ok(Suppressions([i \in 1..Len(listed) |-> CompileOrDefault(listed[i])],
                            UnwrapOrDefault(yaml.value.artifacts)))

\* Mutant of AnyPatternMatches: only the first pattern is tried.
FirstPatternMatches(files, file_path) ==
    files # <<>> /\ Matches(files[1], file_path)

\* suppressions.files.par_iter().any(|pattern| pattern.matches(file_path))
AnyPatternMatches(files, file_path) ==
    \E i \in 1..Len(files) : Matches(files[i], file_path)

\* The closure of filter_suppressed_files: a file name that is not UTF-8 is
\* kept.
KeepCommand(compile_cmd, s) ==
    IF compile_cmd.filename.to_str.some
    THEN ~ AnyPatternMatches(s.files, compile_cmd.filename.to_str.value)
    ELSE TRUE

filter_suppressed_files(compile_cmds, maybe_suppressions) ==
    IF maybe_suppressions.some
    THEN LET Test(compile_cmd) == KeepCommand(compile_cmd, maybe_suppressions.value)
         IN SelectSeq(compile_cmds, Test)
    ELSE compile_cmds

\* Mutant of KeepOrigin: the origin of a leak is never looked at.
KeepOriginAlways(leak, s) == TRUE

\* The closure of filter_suppressed_artifacts_by_origin.
KeepOrigin(leak, s) ==
    LET file_path == leak.declaration_metadata.file
    IN IF file_path.to_str.some
       THEN ~ AnyPatternMatches(s.files, file_path.to_str.value)
       ELSE TRUE

filter_suppressed_artifacts_by_origin(leaks, maybe_suppressions) ==
    IF maybe_suppressions.some
    THEN LET Test(leak) == KeepOrigin(leak, maybe_suppressions.value)
         IN SelectSeq(leaks, Test)
    ELSE leaks

\* !suppressions.artifacts.contains(&leak.data)
KeepValue(leak, s) ==
    ~ \E i \in 1..Len(s.artifacts) : s.artifacts[i] = leak.data

filter_suppressed_artifacts_by_value(leaks, maybe_suppressions) ==
    IF maybe_suppressions.some
    THEN LET Test(leak) == KeepValue(leak, maybe_suppressions.value)
         IN SelectSeq(leaks, Test)
    ELSE leaks

\* The strings of the filters' inputs.
AC == <<97, 46, 99>>
CH == <<99, 46, 104>>
StarH == <<Star, 46, 104>>
AStar == <<97, Star>>
QuestionMarkC == <<QuestionMark, 46, 99>>
c_string == <<99, 95, 115, 116, 114, 105, 110, 103>>
def_test == <<100, 101, 102, 95, 116, 101, 115, 116>>

\* A path that is not UTF-8.
NonUtf8Path == [to_str |-> None]

SuppressionsPool ==
    { None,
      Some(Suppressions(<<>>, <<>>)),
      Some(Suppressions(<<>>, <<c_string>>)),
      Some(Suppressions(<<AC>>, <<Quoted(<<>>, c_string)>>)),
      Some(Suppressions(<<StarH>>, <<def_test>>)),
      Some(Suppressions(<<PatternDefault, AStar>>, <<>>)),
      Some(Suppressions(<<QuestionMarkC, StarH>>, <<def_test, c_string>>)) }

FilterCommandPool ==
    { CompileCommand(Path(AC), SharedArguments, TRUE, <<>>),
      CompileCommand(Path(CH), SharedArguments, TRUE, <<>>),
      CompileCommand(NonUtf8Path, SharedArguments, TRUE, <<>>) }

LiteralAt(display_name, file, line) ==
    Entity("StringLiteral", Some(display_name), Location(file, line), FALSE, <<>>)

\* "c_string", "def_test" and L"c_string" in a.c, "c_string" in c.h, and
\* "def_test" in a file whose path is not UTF-8.
FilterEntityPool ==
    { LiteralAt(Quoted(<<>>, c_string), Path(AC), 1),
      LiteralAt(Quoted(<<>>, def_test), Path(AC), 2),
      LiteralAt(Quoted(<<76>>, c_string), Path(AC), 3),
      LiteralAt(Quoted(<<>>, c_string), Path(CH), 1),
      LiteralAt(Quoted(<<>>, def_test), NonUtf8Path, 1) }

FilterLeakPool == {try_from(entity).value : entity \in FilterEntityPool}

FilterInit ==
    /\ suppressions \in SuppressionsPool
    /\ all_compile_commands \in SeqUpTo(FilterCommandPool, MaxUnits)
    /\ extracted_leaks \in SeqUpTo(FilterLeakPool, MaxLeaks)
    /\ filtered_commands = <<>>
    /\ filtered_leaks = <<>>
    /\ filter_pc = "files"
    /\ suppressions_yaml = NotRun

\* let compile_commands = filter_suppressed_files(.., &suppressions)
FilterSuppressedFiles ==
    /\ filter_pc = "files"
    /\ filtered_commands' = filter_suppressed_files(all_compile_commands, suppressions)
    /\ filter_pc' = "origin"
    /\ UNCHANGED <<suppressions, all_compile_commands, extracted_leaks, filtered_leaks,
                   suppressions_yaml>>
    /\ UNCHANGED <<scanVars, extractVars, mainVars, decodeVars, walkVars, listVars, dedupVars>>

\* let potential_leaks = filter_suppressed_artifacts_by_origin(..)
FilterSuppressedArtifactsByOrigin ==
    /\ filter_pc = "origin"
    /\ filtered_leaks' = filter_suppressed_artifacts_by_origin(extracted_leaks, suppressions)
    /\ filter_pc' = "value"
    /\ UNCHANGED <<suppressions, all_compile_commands, extracted_leaks, filtered_commands,
                   suppressions_yaml>>
    /\ UNCHANGED <<scanVars, extractVars, mainVars, decodeVars, walkVars, listVars, dedupVars>>

\* let potential_leaks = filter_suppressed_artifacts_by_value(..)
FilterSuppressedArtifactsByValue ==
    /\ filter_pc = "value"
    /\ filtered_leaks' = filter_suppressed_artifacts_by_value(filtered_leaks, suppressions)
    /\ filter_pc' = "done"
    /\ UNCHANGED <<suppressions, all_compile_commands, extracted_leaks, filtered_commands,
                   suppressions_yaml>>
    /\ UNCHANGED <<scanVars, extractVars, mainVars, decodeVars, walkVars, listVars, dedupVars>>

FilterNext ==
    \/ FilterSuppressedFiles
    \/ FilterSuppressedArtifactsByOrigin
    \/ FilterSuppressedArtifactsByValue

\* The globs of the suppressions files: [ and a[ and *** do not parse.
Unclosed == <<LeftBracket>>
AUnclosed == <<97, LeftBracket>>
TripleStar == <<Star, Star, Star>>

SuppressionsYamlPool ==
    { Err,
      Ok(SuppressionsListYaml(None, None)),
      Ok(SuppressionsListYaml(Some(<<AC, Unclosed>>), Some(<<c_string>>))),
      Ok(SuppressionsListYaml(Some(<<AUnclosed, StarH>>), None)),
      Ok(SuppressionsListYaml(Some(<<TripleStar>>), Some(<<def_test>>))),
      Ok(SuppressionsListYaml(Some(<<QuestionMarkC>>), Some(<<>>))) }

\* main with --suppressions-list: the file is loaded before the filters run.
LoadInit ==
    /\ suppressions_yaml \in SuppressionsYamlPool
    /\ suppressions = None
    /\ all_compile_commands \in SeqUpTo(FilterCommandPool, MaxUnits)
    /\ extracted_leaks \in SeqUpTo(FilterLeakPool, MaxLeaks)
    /\ filtered_commands = <<>>
    /\ filtered_leaks = <<>>
    /\ filter_pc = "parse"

\* Some(parse_suppressions_file(path).with_context(..)?)
ParseSuppressionsFile ==
    /\ filter_pc = "parse"
    /\ LET result == parse_suppressions_file(suppressions_yaml)
       IN IF result.tag = "Ok"
          THEN suppressions' = Some(result.value) /\ filter_pc' = "files"
          ELSE suppressions' = suppressions /\ filter_pc' = "failed"
    /\ UNCHANGED <<all_compile_commands, extracted_leaks, filtered_commands,
                   filtered_leaks, suppressions_yaml>>
    /\ UNCHANGED <<scanVars, extractVars, mainVars, decodeVars, walkVars, listVars, dedupVars>>

LoadNext ==
    \/ ParseSuppressionsFile
    \/ FilterNext

(***************************************************************************)
(* FileListDatabase: the files named on the command line, kept in a        *)
(* BTreeSet, and the arguments they share.                                 *)
(***************************************************************************)
\* Mutant of BTreeSetFromIter: the paths as they were given.
VecFromIter(paths) == paths

\* BTreeSet::insert into the set's ascending order.
RECURSIVE BTreeSetInsertPath(_, _)
BTreeSetInsertPath(ordered, path) ==
    IF ordered = <<>> THEN <<path>>
    ELSE IF Head(ordered) = path THEN ordered
    ELSE IF StrLess(path, Head(ordered)) THEN <<path>> \o ordered
    ELSE <<Head(ordered)>> \o BTreeSetInsertPath(Tail(ordered), path)

\* BTreeSet::from_iter(file_paths.iter().cloned()), as its ordered content.
RECURSIVE BTreeSetFromIter(_)
BTreeSetFromIter(paths) ==
    IF paths = <<>> THEN <<>>
    ELSE BTreeSetInsertPath(BTreeSetFromIter(SubSeq(paths, 1, Len(paths) - 1)),
                            paths[Len(paths)])

\* The paths given on the command line: ./a.c a.c b.c and one that is gone.
DotSlashAC == <<46, 47>> \o AC
BC == <<98, 46, 99>>
GoneC == <<103, 46, 99>>

SourcePathPool == {DotSlashAC, AC, BC, GoneC}

\* Path::canonicalize in the working directory /: ./a.c and a.c are one
\* file, g.c does not exist.
Canonicalize(path) ==
    CASE path = DotSlashAC -> Ok(Path(<<47>> \o AC))
      [] path = AC -> Ok(Path(<<47>> \o AC))
      [] path = BC -> Ok(Path(<<47>> \o BC))
      [] path = GoneC -> Err

\* The map of get_all_compile_commands collected into a Result<Vec<_>>: the
\* first error, or the commands in the order of the set.
RECURSIVE CollectCommands(_, _)
CollectCommands(ordered, arguments) ==
    IF ordered = <<>> THEN Ok(<<>>)
    ELSE LET filename == Canonicalize(Head(ordered))
             rest == CollectCommands(Tail(ordered), arguments)
         IN IF filename.tag # "Ok" \/ rest.tag # "Ok" THEN Err
            ELSE Ok(<<[filename |-> filename.value, arguments |-> arguments]>>
                    \o rest.value)

ArgumentsPool == {<<>>, SharedArguments}

FileListInit ==
    /\ source_paths \in SeqUpTo(SourcePathPool, MaxUnits)
    /\ list_arguments \in ArgumentsPool
    /\ file_paths = <<>>
    /\ list_commands = NotRun
    /\ list_pc = "new"

\* FileListDatabase::new(&file_paths, arguments)
FileListDatabaseNew ==
    /\ list_pc = "new"
    /\ file_paths' = BTreeSetFromIter(source_paths)
    /\ list_pc' = "built"
    /\ UNCHANGED <<source_paths, list_arguments, list_commands>>
    /\ UNCHANGED <<scanVars, extractVars, mainVars, decodeVars, filterVars, walkVars, dedupVars>>

\* FileListDatabase::get_all_compile_commands
FileListGetAllCompileCommands ==
    /\ list_pc = "built"
    /\ list_commands' = CollectCommands(file_paths, list_arguments)
    /\ list_pc' = "returned"
    /\ UNCHANGED <<source_paths, list_arguments, file_paths>>
    /\ UNCHANGED <<scanVars, extractVars, mainVars, decodeVars, filterVars, walkVars, dedupVars>>

FileListNext ==
    \/ FileListDatabaseNew
    \/ FileListGetAllCompileCommands

(***************************************************************************)
(* The candidates of main under --ignore-multiple-declarations: the        *)
(* conversions of the gathered entities collected into a HashSet.          *)
(***************************************************************************)
Abc == <<97, 98, 99>>

\* "abc" with each encoding prefix, struct abc, class abc, and "abd".
DedupEntityPool ==
    { StringLiteral(Quoted(<<>>, Abc), 1),
      StringLiteral(Quoted(<<76>>, Abc), 2),
      StringLiteral(Quoted(<<117>>, Abc), 3),
      StringLiteral(Quoted(<<85>>, Abc), 4),
      StringLiteral(Quoted(<<117, 56>>, Abc), 5),
      Entity("StructDecl", Some(Abc), Location("main.cc", 6), FALSE, <<>>),
      Entity("ClassDecl", Some(Abc), Location("main.cc", 7), FALSE, <<>>),
      StringLiteral(Quoted(<<>>, <<97, 98, 100>>), 8) }

DedupInit ==
    /\ dedup_entities \in SeqUpTo(DedupEntityPool, MaxLeaks)
    /\ dedup_leaks = <<>>
    /\ dedup_set = <<>>
    /\ dedup_pc = "convert"

\* The conversions of the entities, as extract_artifacts_from_source_files
\* returns them with minimum_leak_size 0.
ConvertEntities ==
    /\ dedup_pc = "convert"
    /\ dedup_leaks' = FilterMap(dedup_entities, 0).value
    /\ dedup_pc' = "collect"
    /\ UNCHANGED <<dedup_entities, dedup_set>>
    /\ UNCHANGED <<scanVars, extractVars, mainVars, decodeVars, filterVars, walkVars,
                   listVars>>

\* let potential_leaks: HashSet<PotentialLeak> = HashSet::from_iter(potential_leaks)
CollectHashSet ==
    /\ dedup_pc = "collect"
    /\ dedup_set' = HashSetFromIter(dedup_leaks)
    /\ dedup_pc' = "done"
    /\ UNCHANGED <<dedup_entities, dedup_leaks>>
    /\ UNCHANGED <<scanVars, extractVars, mainVars, decodeVars, filterVars, walkVars,
                   listVars>>

DedupNext ==
    \/ ConvertEntities
    \/ CollectHashSet

(***************************************************************************)
(* main and the exit status of the process.  main returns Result<()>: the  *)
(* runtime ends the process with status 0 for Ok(()) and 1 for Err, and a  *)
(* panic ends it with 101.                                                 *)
(***************************************************************************)
ExitStatus(result) ==
    CASE result = "Ok" -> 0
      [] result = "Err" -> 1
      [] result = "Panic" -> 101

\* Mutant of MainResult: main returns Ok(()) after printing the leaks.
MainResultAlwaysOk(leaks) == "Ok"

\* The last statement of main: Ok(()) when no leak is left, an error otherwise.
MainResult(leaks) == IF leaks = {} THEN "Ok" ELSE "Err"

\* Mutant of NextStage: the extraction follows get_all_compile_commands
\* without the file filter.
NextStageUnfiltered(current) ==
    CASE current = "check_binary" -> "suppressions"
      [] current = "suppressions" -> "compilation_db"
      [] current = "compilation_db" -> "compile_commands"
      [] current = "compile_commands" -> "extract"
      [] current = "filter_files" -> "extract"
      [] current = "extract" -> "filter_artifacts"
      [] current = "filter_artifacts" -> "scan"

\* The statement of main that follows a statement that returned normally.
NextStage(current) ==
    CASE current = "check_binary" -> "suppressions"
      [] current = "suppressions" -> "compilation_db"
      [] current = "compilation_db" -> "compile_commands"
      [] current = "compile_commands" -> "filter_files"
      [] current = "filter_files" -> "extract"
      [] current = "extract" -> "filter_artifacts"
      [] current = "filter_artifacts" -> "scan"

MainInit ==
    /\ stage = "check_binary"
    /\ failure = "none"
    /\ report = {}
    /\ exit_status = 0
    /\ stdout = <<>>

\* main returns result, or panics, and the process ends.
Return(result, why) ==
    /\ stage' = "exited"
    /\ failure' = why
    /\ exit_status' = ExitStatus(result)

\* if !options.binary_file_path.is_file() { return Err(..) }
CheckBinaryPath ==
    /\ stage = "check_binary"
    /\ \E is_file \in BOOLEAN :
          IF is_file
          THEN stage' = NextStage(stage) /\ UNCHANGED <<failure, exit_status>>
          ELSE Return("Err", "binary_path")
    /\ UNCHANGED <<report, stdout, scanVars, extractVars, otherVars>>

\* The suppressions list is parsed when one is given.
ParseSuppressions ==
    /\ stage = "suppressions"
    /\ \E suppressions_list \in {"none", "readable", "unreadable"} :
          IF suppressions_list = "unreadable"
          THEN Return("Err", "suppressions")
          ELSE stage' = NextStage(stage) /\ UNCHANGED <<failure, exit_status>>
    /\ UNCHANGED <<report, stdout, scanVars, extractVars, otherVars>>

\* generate_compilation_database(&options)?
GenerateCompilationDatabase ==
    /\ stage = "compilation_db"
    /\ \E generated \in BOOLEAN :
          IF generated
          THEN stage' = NextStage(stage) /\ UNCHANGED <<failure, exit_status>>
          ELSE Return("Err", "compilation_db")
    /\ UNCHANGED <<report, stdout, scanVars, extractVars, otherVars>>

\* compilation_db.get_all_compile_commands()?
GetAllCompileCommands ==
    /\ stage = "compile_commands"
    /\ \E listed \in BOOLEAN :
          IF listed
          THEN stage' = NextStage(stage) /\ UNCHANGED <<failure, exit_status>>
          ELSE Return("Err", "compilation_db")
    /\ UNCHANGED <<report, stdout, scanVars, extractVars, otherVars>>

\* filter_suppressed_files(.., &suppressions): it returns a list.
MainFilterSuppressedFiles ==
    /\ stage = "filter_files"
    /\ stage' = NextStage(stage)
    /\ UNCHANGED <<failure, exit_status, report, stdout, scanVars, extractVars, otherVars>>

\* extract_artifacts_from_source_files(..)?
ExtractArtifacts ==
    /\ stage = "extract"
    /\ \E extracted \in {"Ok", "Err", "Panic"} :
          IF extracted = "Ok"
          THEN stage' = NextStage(stage) /\ UNCHANGED <<failure, exit_status>>
          ELSE Return(extracted, "extract")
    /\ UNCHANGED <<report, stdout, scanVars, extractVars, otherVars>>

\* The two suppression filters, which yield potential_leaks; then main goes
\* on to the scanner.
MainFilterSuppressedArtifacts ==
    /\ stage = "filter_artifacts"
    /\ stage' = NextStage(stage)
    /\ scan_pc' = "main"
    /\ UNCHANGED <<ignore_multiple_declarations, potential_leaks, bin_data, leak_desc,
                   index_parts, byte_to_leaks, scan_parts, confirmed_leaks>>
    /\ UNCHANGED <<failure, exit_status, report, stdout, extractVars, otherVars>>

\* find_leaks_in_binary_file(..)? when the binary cannot be opened, read or
\* canonicalized.
FindLeaksFails ==
    /\ stage = "scan"
    /\ scan_pc = "main"
    /\ Return("Err", "binary_read")
    /\ scan_pc' = "failed"
    /\ UNCHANGED <<ignore_multiple_declarations, potential_leaks, bin_data, leak_desc,
                   index_parts, byte_to_leaks, scan_parts, confirmed_leaks>>
    /\ UNCHANGED <<report, stdout, extractVars, otherVars>>

\* Mutant of IsEmpty: the set is never taken to be empty.
IsEmptyNever(leaks) == FALSE

\* leaks.is_empty()
IsEmpty(leaks) == leaks = {}

\* What print_confirmed_leaks writes: one JSON document with the version and
\* the leaks, or one line of text per leak.
print_confirmed_leaks(leaks, json) ==
    IF json THEN <<[format |-> "json", leaks |-> leaks]>>
    ELSE IF leaks = {} THEN <<>>
    ELSE <<[format |-> "text", leaks |-> leaks]>>

\* if leaks.is_empty() { Ok(()) } else { print_confirmed_leaks(..)?; Err(..) }
\* The JSON writer returns its error; println! panics when stdout is closed.
ReportLeaks ==
    /\ stage = "scan"
    /\ scan_pc = "done"
    /\ IF IsEmpty(confirmed_leaks)
       THEN Return(MainResult(confirmed_leaks), "none") /\ UNCHANGED <<report, stdout>>
       ELSE \E json \in BOOLEAN, printed \in BOOLEAN :
               IF printed
               THEN /\ report' = confirmed_leaks
                    /\ stdout' = stdout \o print_confirmed_leaks(confirmed_leaks, json)
                    /\ Return(MainResult(confirmed_leaks), "leaks")
               ELSE /\ UNCHANGED <<report, stdout>>
                    /\ Return(IF json THEN "Err" ELSE "Panic", "print")
    /\ UNCHANGED <<scanVars, extractVars, otherVars>>

MainNext ==
    \/ CheckBinaryPath
    \/ ParseSuppressions
    \/ GenerateCompilationDatabase
    \/ GetAllCompileCommands
    \/ MainFilterSuppressedFiles
    \/ ExtractArtifacts
    \/ MainFilterSuppressedArtifacts
    \/ FindLeaksFails
    \/ ReportLeaks
    \/ ScanNext

(***************************************************************************)
(* Reference definitions for the extraction's properties.                  *)
(***************************************************************************)
\* The string literals gathered from the first k compile commands, in order.
RECURSIVE GatheredUpTo(_)
GatheredUpTo(k) ==
    IF k = 0 THEN <<>>
    ELSE GatheredUpTo(k - 1) \o StringLiterals(compile_commands[k])

Gathered(entity) ==
    \E k \in 1..Len(GatheredUpTo(next_cmd - 1)) : GatheredUpTo(next_cmd - 1)[k] = entity

\* The conversions that succeed with a pattern of at least minimum_leak_size
\* bytes, in the order of the entities.
RECURSIVE LongEnough(_)
LongEnough(entities) ==
    IF entities = <<>> THEN <<>>
    ELSE (IF /\ try_from(Head(entities)).tag = "Ok"
             /\ Len(try_from(Head(entities)).value.bytes) >= minimum_leak_size
          THEN <<try_from(Head(entities)).value>> ELSE <<>>)
         \o LongEnough(Tail(entities))

Returned(potential_leak) ==
    \E k \in 1..Len(extract_accum) : extract_accum[k] = potential_leak

(***************************************************************************)
(* C3. Every potential leak that extract_artifacts_from_source_files has   *)
(* accumulated or returns has a byte pattern, the decoded and encoded      *)
(* bytes of the literal, of at least minimum_leak_size bytes, and the      *)
(* leaks are exactly the successful conversions of the gathered entities   *)
(* whose pattern is that long, in order.                                   *)
(***************************************************************************)
ExtractKeepsLongEnough ==
    ext_pc \in {"fold", "done"} =>
        /\ \A k \in 1..Len(extract_accum) :
              Len(extract_accum[k].bytes) >= minimum_leak_size
        /\ extract_accum = LongEnough(GatheredUpTo(next_cmd - 1))

\* A run returned a leak of exactly the minimum size, dropped a shorter one
\* and discarded an entity that failed to convert.
ExtractKeepsLongEnoughWitness ==
    /\ ext_pc = "done"
    /\ minimum_leak_size > 0
    /\ \E k \in 1..Len(extract_accum) : Len(extract_accum[k].bytes) = minimum_leak_size
    /\ \E k \in 1..Len(GatheredUpTo(next_cmd - 1)) :
          LET leak_res == try_from(GatheredUpTo(next_cmd - 1)[k])
          IN leak_res.tag = "Ok" /\ Len(leak_res.value.bytes) < minimum_leak_size
    /\ \E k \in 1..Len(GatheredUpTo(next_cmd - 1)) :
          try_from(GatheredUpTo(next_cmd - 1)[k]).tag = "Err"

(***************************************************************************)
(* C4, as stated.  With minimum_leak_size = 4 the literal "%s\n" counts as *)
(* 4 bytes and is kept as a candidate, and "ab" is dropped.                *)
(***************************************************************************)
PercentSNewlineKept ==
    (ext_pc = "done" /\ minimum_leak_size = 4 /\ Gathered(PercentSNewline)) =>
        /\ Len(try_from(PercentSNewline).value.bytes) = 4
        /\ Returned(try_from(PercentSNewline).value)
        /\ ~ Returned(try_from(Ab).value)

(***************************************************************************)
(* C4, amended.  The literal "%s\n" decodes to the 3 bytes 0x25 0x73 0x0A; *)
(* with minimum_leak_size = 4 it is dropped, as is "ab", and the wide      *)
(* literal L"%s\n" of 6 bytes (UTF-16LE) or 12 bytes (UTF-32LE) is kept.   *)
(***************************************************************************)
PercentSNewlineDropped ==
    (ext_pc = "done" /\ minimum_leak_size = 4) =>
        /\ try_from(PercentSNewline).value.bytes = <<37, 115, 10>>
        /\ ~ Returned(try_from(PercentSNewline).value)
        /\ ~ Returned(try_from(Ab).value)
        /\ Gathered(WidePercentSNewline) =>
              /\ Returned(try_from(WidePercentSNewline).value)
              /\ Len(try_from(WidePercentSNewline).value.bytes)
                    = IF cfg_windows THEN 6 ELSE 12

\* A run with the minimum of 4 gathered "%s\n", "ab" and L"%s\n" and
\* returned the wide literal.
PercentSNewlineDroppedWitness ==
    /\ ext_pc = "done"
    /\ minimum_leak_size = 4
    /\ Gathered(PercentSNewline) /\ Gathered(Ab) /\ Gathered(WidePercentSNewline)
    /\ Returned(try_from(WidePercentSNewline).value)

(***************************************************************************)
(* C9. A run that completes the pipeline ends with status 0 exactly when   *)
(* the confirmed-leak set is empty; when the set is not empty the report   *)
(* holds the set and the status is not 0.  No run ends with status 0       *)
(* without an empty set, and no run with a non-empty set ends with 0.      *)
(***************************************************************************)
ExitStatusReflectsLeaks ==
    stage = "exited" =>
        /\ failure \in {"none", "leaks"} =>
              /\ scan_pc = "done"
              /\ exit_status = 0 <=> confirmed_leaks = {}
              /\ confirmed_leaks # {} => (report = confirmed_leaks /\ exit_status # 0)
        /\ exit_status = 0 => (scan_pc = "done" /\ confirmed_leaks = {})
        /\ (scan_pc = "done" /\ confirmed_leaks # {}) => exit_status # 0

\* A run found leaks, wrote them and ended with a non-zero status.
ExitStatusReflectsLeaksWitness ==
    /\ stage = "exited"
    /\ failure = "leaks"
    /\ Cardinality(confirmed_leaks) >= 2
    /\ report = confirmed_leaks
    /\ exit_status = 1

(***************************************************************************)
(* C10, as stated.  A run that fails on invalid input (a binary path that  *)
(* is not a file, an unreadable suppressions file, a malformed compilation *)
(* database) ends with status 2, never with 0 or 1.                        *)
(***************************************************************************)
InvalidInputExitsWithTwo ==
    (stage = "exited" /\ failure \in {"binary_path", "suppressions", "compilation_db"})
        => exit_status = 2

(***************************************************************************)
(* Reference definitions for the decoder's properties.                     *)
(***************************************************************************)
Called == dec_pc \in {"returned", "panicked"}

\* The literal is prefix"p" with a closing quote.
IsQuoted(literal, prefix) ==
    /\ Len(literal) >= Len(prefix) + 2
    /\ SubSeq(literal, 1, Len(prefix)) = prefix
    /\ literal[Len(prefix) + 1] = 34
    /\ literal[Len(literal)] = 34

IsAscii(string) == \A k \in 1..Len(string) : string[k] < 128

\* The number of octal digits, 0 to 3, at the head of string.
DigitRun(string) ==
    IF string = <<>> \/ ~ (string[1] \in 48..55) THEN 0
    ELSE IF Len(string) < 2 \/ ~ (string[2] \in 48..55) THEN 1
    ELSE IF Len(string) < 3 \/ ~ (string[3] \in 48..55) THEN 2
    ELSE 3

\* The value of a run of octal digits.
RECURSIVE DigitsValue(_)
DigitsValue(digits) ==
    IF digits = <<>> THEN 0
    ELSE 8 * DigitsValue(SubSeq(digits, 1, Len(digits) - 1)) + digits[Len(digits)] - 48

\* The one-character escapes as the specification lists them.
OneCharEscape(c) ==
    CASE c = 97 -> 7 [] c = 98 -> 8 [] c = 116 -> 9 [] c = 110 -> 10
      [] c = 118 -> 11 [] c = 102 -> 12 [] c = 114 -> 13 [] OTHER -> c

\* The kinds of escape a payload holds, read from left to right.
RECURSIVE EscapeKinds(_)
EscapeKinds(payload) ==
    IF payload = <<>> THEN {}
    ELSE IF payload[1] # 92 THEN EscapeKinds(Tail(payload))
    ELSE IF Len(payload) = 1 THEN {"trailing"}
    ELSE IF DigitRun(Tail(payload)) > 0
    THEN {"octal"} \cup EscapeKinds(SubSeq(payload, 2 + DigitRun(Tail(payload)), Len(payload)))
    ELSE {"char"} \cup EscapeKinds(SubSeq(payload, 3, Len(payload)))

\* The characters a payload without a trailing backslash decodes to.
RECURSIVE Decoded(_)
Decoded(payload) ==
    IF payload = <<>> THEN <<>>
    ELSE IF payload[1] # 92 THEN <<payload[1]>> \o Decoded(Tail(payload))
    ELSE IF DigitRun(Tail(payload)) > 0
    THEN <<DigitsValue(SubSeq(payload, 2, 1 + DigitRun(Tail(payload))))>>
         \o Decoded(SubSeq(payload, 2 + DigitRun(Tail(payload)), Len(payload)))
    ELSE <<OneCharEscape(payload[2])>> \o Decoded(SubSeq(payload, 3, Len(payload)))

(***************************************************************************)
(* C11.  parse_string_literal classifies by the first character: a double  *)
(* quote gives Unspecified with the chars 1..len-1 as payload, L gives     *)
(* Wide and U gives Utf32 with the chars 2..len-1, u8" gives Utf8 with the *)
(* chars 3..len-1, any other u gives Utf16 with the chars 2..len-1; the    *)
(* empty input, a u literal of fewer than three chars and any other first  *)
(* character are errors.                                                   *)
(***************************************************************************)
PrefixParserClassifies ==
    Called =>
        LET s == dec_literal
            n == Len(dec_literal)
            classified(encoding, from) ==
                Ok([encoding |-> encoding, content |-> SubSeq(s, from + 1, n - 1)])
        IN dec_parsed =
              IF s = <<>> THEN Err
              ELSE CASE s[1] = 34 -> classified("Unspecified", 1)
                     [] s[1] = 76 -> classified("Wide", 2)
                     [] s[1] = 85 -> classified("Utf32", 2)
                     [] s[1] = 117 ->
                          IF n < 3 THEN Err
                          ELSE IF s[2] = 56 /\ s[3] = 34 THEN classified("Utf8", 3)
                          ELSE classified("Utf16", 2)
                     [] OTHER -> Err

(***************************************************************************)
(* C12.  For an Unspecified or Utf8 literal the byte pattern holds one     *)
(* byte per ASCII character or octal escape of the payload, and the byte   *)
(* of an octal escape is its octal value: \222 contributes the one byte    *)
(* 0x92.                                                                   *)
(***************************************************************************)
OctalEscapeIsOneByte ==
    (/\ Called
     /\ dec_parsed.tag = "Ok"
     /\ dec_parsed.value.encoding \in {"Unspecified", "Utf8"}
     /\ IsAscii(dec_parsed.value.content)
     /\ EscapeKinds(dec_parsed.value.content) \subseteq {"octal"}
     /\ \A k \in 1..Len(Decoded(dec_parsed.value.content)) :
           Decoded(dec_parsed.value.content)[k] <= 255)
        => dec_bytes = Ok(Decoded(dec_parsed.value.content))

(***************************************************************************)
(* C13.  process_escape_sequences decodes an octal escape from the longest *)
(* run of 1 to 3 octal digits after the backslash, emits one character of  *)
(* that value for every such run, and goes on with the character right     *)
(* after the digits.                                                       *)
(***************************************************************************)
OctalEscapeDecoded ==
    (/\ Called
     /\ dec_parsed.tag = "Ok"
     /\ EscapeKinds(dec_parsed.value.content) = {"octal"})
        => dec_decoded = Ok(Decoded(dec_parsed.value.content))

(***************************************************************************)
(* C14.  process_escape_sequences maps \a \b \t \n \v \f \r to 0x07 0x08   *)
(* 0x09 0x0A 0x0B 0x0C 0x0D and any other non-octal \X to X, returns a     *)
(* payload without a backslash unchanged, and reports an error for a       *)
(* payload that ends with a backslash that has nothing after it.           *)
(***************************************************************************)
OneCharEscapeDecoded ==
    (/\ Called
     /\ dec_parsed.tag = "Ok"
     /\ ~ ("octal" \in EscapeKinds(dec_parsed.value.content)))
        => dec_decoded = IF "trailing" \in EscapeKinds(dec_parsed.value.content)
                         THEN Err
                         ELSE Ok(Decoded(dec_parsed.value.content))

(***************************************************************************)
(* C15.  For every payload p, L"p" in the Windows mode decodes to the      *)
(* bytes of u"p", two little-endian bytes per UTF-16 code unit, and L"p"   *)
(* in the Unix mode decodes to the bytes of U"p", four little-endian bytes *)
(* per scalar; a mode that is passed takes precedence over the platform's. *)
(***************************************************************************)
WideMatchesExplicitEncoding ==
    (Called /\ IsQuoted(dec_literal, <<76>>)) =>
        LET mode == IF dec_mode.some THEN dec_mode.value
                    ELSE IF cfg_windows THEN "Windows" ELSE "Unix"
            same_as == IF mode = "Windows" THEN <<117>> ELSE <<85>>
            width == IF mode = "Windows" THEN 2 ELSE 4
            unit(k) == dec_bytes.value[width * k - width + 1]
                           + 256 * dec_bytes.value[width * k - width + 2]
            scalar(k) == unit(k) + (IF width = 2 THEN 0
                                    ELSE 65536 * dec_bytes.value[width * k - 1]
                                         + 16777216 * dec_bytes.value[width * k])
        IN /\ dec_bytes = string_literal_to_bytes(same_as \o Tail(dec_literal), None)
           /\ dec_bytes = string_literal_to_bytes(same_as \o Tail(dec_literal),
                                                  Some("Windows"))
           /\ dec_bytes = string_literal_to_bytes(same_as \o Tail(dec_literal),
                                                  Some("Unix"))
           /\ (dec_bytes.tag = "Ok"
                  /\ \A k \in 1..Len(dec_decoded.value) : dec_decoded.value[k] < 65536) =>
                 /\ Len(dec_bytes.value) = width * Len(dec_decoded.value)
                 /\ \A k \in 1..Len(dec_decoded.value) : scalar(k) = dec_decoded.value[k]

\* A wide literal with an escape was decoded in a mode that was passed
\* against the platform's.
WideMatchesExplicitEncodingWitness ==
    /\ dec_pc = "returned"
    /\ IsQuoted(dec_literal, <<76>>)
    /\ dec_mode = Some("Windows") /\ ~ cfg_windows
    /\ dec_bytes.tag = "Ok"
    /\ Len(dec_bytes.value) = 4
    /\ Len(dec_parsed.value.content) = 3

(***************************************************************************)
(* The specifications.                                                     *)
(***************************************************************************)
(* Reference definitions for the filters' properties: the set of elements  *)
(* that may remain, and the subsequence of a list inside such a set.       *)
(***************************************************************************)
RECURSIVE Restrict(_, _)
Restrict(list, remaining) ==
    IF list = <<>> THEN <<>>
    ELSE IF Head(list) \in remaining
         THEN <<Head(list)>> \o Restrict(Tail(list), remaining)
         ELSE Restrict(Tail(list), remaining)

Elements(list) == {list[i] : i \in 1..Len(list)}

\* The path as a string matches one of the suppressed globs.
IsSuppressedPath(path) ==
    /\ suppressions.some
    /\ path.to_str.some
    /\ \E pattern \in Elements(suppressions.value.files) :
           Matches(pattern, path.to_str.value)

IsSuppressedData(data) ==
    /\ suppressions.some
    /\ data \in Elements(suppressions.value.artifacts)

UnsuppressedLeaks ==
    { leak \in Elements(extracted_leaks) :
        /\ ~ IsSuppressedPath(leak.declaration_metadata.file)
        /\ ~ IsSuppressedData(leak.data) }

UnsuppressedCommands ==
    { compile_cmd \in Elements(all_compile_commands) :
        ~ IsSuppressedPath(compile_cmd.filename) }

\* C16: after the two passes that follow the extraction, the remaining leaks
\* are exactly the extracted leaks whose origin path matches no suppressed
\* glob and whose data equals no suppressed artifact, in the original order
\* and unmodified; without a suppression list nothing is removed.
RemainingLeaksAreTheUnsuppressed ==
    filter_pc = "done" =>
        /\ filtered_leaks = Restrict(extracted_leaks, UnsuppressedLeaks)
        /\ ~ suppressions.some => filtered_leaks = extracted_leaks

\* Each pass has removed a leak that the other pass would have kept.
RemainingLeaksAreTheUnsuppressedWitness ==
    /\ filter_pc = "done"
    /\ \E leak \in Elements(extracted_leaks) :
           /\ IsSuppressedPath(leak.declaration_metadata.file)
           /\ ~ IsSuppressedData(leak.data)
    /\ \E leak \in Elements(extracted_leaks) :
           /\ ~ IsSuppressedPath(leak.declaration_metadata.file)
           /\ IsSuppressedData(leak.data)

\* The literal's characters between its opening quote and its closing quote.
ContentOf(display_name) ==
    LET open == CHOOSE k \in 1..Len(display_name) :
                    /\ display_name[k] = 34
                    /\ \A j \in 1..(k - 1) : display_name[j] # 34
    IN SubSeq(display_name, open + 1, Len(display_name) - 1)

SuppressedFilesAreDropped ==
    filter_pc \in {"origin", "value", "done"} =>
        /\ filtered_commands = Restrict(all_compile_commands, UnsuppressedCommands)
        /\ ~ suppressions.some => filtered_commands = all_compile_commands

\* A command is dropped for a glob that is not the first of the list, and a
\* command is kept.
SuppressedFilesAreDroppedWitness ==
    /\ filter_pc = "origin"
    /\ filtered_commands # <<>>
    /\ \E compile_cmd \in Elements(all_compile_commands) :
           /\ IsSuppressedPath(compile_cmd.filename)
           /\ ~ Matches(suppressions.value.files[1], compile_cmd.filename.to_str.value)

\* The compile command each parse request was made for.
RequestsFollowCommands ==
    /\ Len(parse_requests) <= Len(compile_commands)
    /\ Len(parse_requests) \in {next_cmd - 1, next_cmd}

\* C19: when a translation unit fails to parse, the extraction ends with an
\* error whose context names the path of the file that failed, in manual
\* mode and in compilation-database mode alike, and returns no leak.
ParseFailureNamesTheFile ==
    (ext_pc = "failed" /\ error_context.some) =>
        /\ ~ compile_commands[next_cmd].parses
        /\ error_context.value = Display(compile_commands[next_cmd].filename)

\* In manual mode the context names the file that failed.
ParseFailureNamesTheFileInManualMode ==
    (ext_pc = "failed" /\ error_context.some /\ ~ use_file_path_from_arguments) =>
        error_context.value = Display(compile_commands[next_cmd].filename)

\* C20 as stated: in compilation-database mode the parser is given the
\* command's arguments without their last element, the file path.
ParserArgumentsAreStripped ==
    use_file_path_from_arguments =>
        \A i \in 1..Len(parse_requests) :
            LET arguments == compile_commands[i].arguments
            IN parse_requests[i].arguments = SubSeq(arguments, 1, Len(arguments) - 1)

\* C20: in compilation-database mode the parser is given the command's
\* arguments as they are, the file path last, and the empty path as the
\* file to parse; in neither mode is it given the file path both in the
\* arguments and as the file to parse.
ParserGivenFilePathOnce ==
    /\ RequestsFollowCommands
    /\ \A i \in 1..Len(parse_requests) :
           LET compile_cmd == compile_commands[i]
               request == parse_requests[i]
           IN /\ request.arguments = compile_cmd.arguments
              /\ use_file_path_from_arguments =>
                    /\ request.file_path = PathBufDefault
                    /\ request.arguments[Len(request.arguments)]
                          = Display(compile_cmd.filename)
              /\ ~ (/\ request.file_path = compile_cmd.filename
                    /\ Display(compile_cmd.filename) \in Elements(request.arguments))

\* Two commands of a compilation database have been handed to the parser.
ParserGivenFilePathOnceWitness ==
    /\ use_file_path_from_arguments
    /\ Len(parse_requests) = 2
    /\ parse_requests[2].arguments = CompilerArguments(compile_commands[2].filename)

\* The globs listed in the loaded file, and those of them that parse.
ListedFiles == UnwrapOrDefault(suppressions_yaml.value.files)

WellFormedFiles == {pattern \in Elements(ListedFiles) : PatternNew(pattern).tag = "Ok"}

Loaded == filter_pc \in {"files", "origin", "value", "done"} /\ suppressions_yaml # NotRun

\* C21 as stated: after loading, Suppressions.files holds exactly the globs
\* that parse, in their original order.
OnlyWellFormedPatternsLoaded ==
    Loaded => suppressions.value.files = Restrict(ListedFiles, WellFormedFiles)

\* C21: loading does not fail for a glob that does not parse; Suppressions.files
\* holds one pattern per listed glob, in order: the glob's pattern if it
\* parses and the empty pattern if not; the empty pattern suppresses no
\* compile command and no potential leak, so what the filters keep is what
\* the globs that parse let through.
MalformedPatternSuppressesNothing ==
    /\ (filter_pc = "failed" /\ suppressions_yaml # NotRun) => suppressions_yaml.tag = "Err"
    /\ Loaded =>
          /\ Len(suppressions.value.files) = Len(ListedFiles)
          /\ \A i \in 1..Len(ListedFiles) :
                suppressions.value.files[i] =
                    IF ListedFiles[i] \in WellFormedFiles THEN ListedFiles[i] ELSE <<>>
          /\ filter_pc # "files" =>
                \A compile_cmd \in Elements(all_compile_commands) :
                    compile_cmd \in Elements(filtered_commands)
                      <=> (compile_cmd.filename.to_str.some =>
                             \A pattern \in WellFormedFiles :
                                ~ Matches(pattern, compile_cmd.filename.to_str.value))
          /\ filter_pc \in {"value", "done"} =>
                \A leak \in Elements(extracted_leaks) :
                    LET file_path == leak.declaration_metadata.file
                    IN (/\ leak \notin Elements(filtered_leaks)
                        /\ ~ IsSuppressedData(leak.data))
                         => /\ file_path.to_str.some
                            /\ \E pattern \in WellFormedFiles :
                                   Matches(pattern, file_path.to_str.value)

\* A file with a glob that does not parse has been loaded and the filters
\* have kept a command and a leak.
MalformedPatternSuppressesNothingWitness ==
    /\ filter_pc = "done"
    /\ suppressions_yaml # NotRun
    /\ Elements(ListedFiles) # WellFormedFiles
    /\ filtered_commands # <<>>
    /\ filtered_leaks # <<>>

\* The entities whose conversion gives a leak.
Converts(entity) == try_from(entity).tag = "Ok"

\* C22: an entity whose conversion fails (no file location, or a display
\* name that is not a well-formed literal, names shorter than their prefix
\* and two quotes included) is skipped: the conversion gives an error and
\* never aborts the run, and the leaks of the other entities are what they
\* would be without the failing entity.
ConversionFailureIsSkipped ==
    /\ ext_pc # "panicked"
    /\ ext_pc \in {"fold", "done"} =>
          extract_accum = LongEnough(SelectSeq(GatheredUpTo(next_cmd - 1), Converts))

\* What holds of the runs that do not panic.
ConversionErrorIsSkipped ==
    ext_pc \in {"fold", "done"} =>
        extract_accum = LongEnough(SelectSeq(GatheredUpTo(next_cmd - 1), Converts))

(***************************************************************************)
(* Reference definitions for the walk: an entity of the tree is named by   *)
(* the path of child indexes that leads to it from the root.               *)
(***************************************************************************)
Paths == SeqUpTo(1..MaxChildren, MaxDepth)

RECURSIVE HasPath(_, _)
HasPath(entity, path) ==
    IF path = <<>> THEN TRUE
    ELSE /\ Head(path) <= Len(entity.children)
         /\ HasPath(entity.children[Head(path)], Tail(path))

RECURSIVE At(_, _)
At(entity, path) ==
    IF path = <<>> THEN entity ELSE At(entity.children[Head(path)], Tail(path))

\* No child along the path is in a system header; the root is not a child.
OutsideSystemHeaders(path) ==
    \A k \in 1..Len(path) : ~ At(walk_root, SubSeq(path, 1, k)).in_system_header

Wanted ==
    { path \in Paths :
        /\ HasPath(walk_root, path)
        /\ At(walk_root, path).kind \in walk_filter
        /\ walk_ignore => OutsideSystemHeaders(path) }

\* Depth-first pre-order: a path comes after its prefixes and after the
\* paths that branch off to the left.
Before(p, q) == p # q /\ StrLess(p, q)

Rank(path) == 1 + Cardinality({q \in Wanted : Before(q, path)})

\* C23: the walk returns, once each and in depth-first pre-order, exactly
\* the entities of a wanted kind that are reached from the root through
\* children outside system headers when ignore_system_headers is set, and
\* every entity of a wanted kind when it is not.
WalkPrunesSystemHeaders ==
    walk_pc = "returned" =>
        /\ Len(walk_entities) = Cardinality(Wanted)
        /\ \A path \in Wanted : walk_entities[Rank(path)] = At(walk_root, path)

\* The walk pruned a child in a system header above a literal that is not
\* in one, and returned a literal found two levels down.
WalkPrunesSystemHeadersWitness ==
    /\ walk_pc = "returned"
    /\ walk_ignore
    /\ \E path \in Paths :
           /\ Len(path) = 2
           /\ HasPath(walk_root, path)
           /\ At(walk_root, path).kind \in walk_filter
           /\ ~ At(walk_root, path).in_system_header
           /\ At(walk_root, <<path[1]>>).in_system_header
    /\ \E path \in Wanted : Len(path) = 2

(***************************************************************************)
(* Reference definitions for the order of the stages of main.              *)
(***************************************************************************)
\* The stage a state is in: the report follows the end of the scan.
StageOf(current, scanner) ==
    IF current = "scan" /\ scanner = "done" THEN "report" ELSE current

StageOrder ==
    <<"check_binary", "suppressions", "compilation_db", "compile_commands",
      "filter_files", "extract", "filter_artifacts", "scan", "report", "exited">>

Position(name) == CHOOSE k \in 1..Len(StageOrder) : StageOrder[k] = name

\* A step of a run goes to the next stage, stays in its stage, or ends the
\* run; the scanner's state moves only in the scan stage, the report is
\* written only by the report stage, and nothing follows the end.
StageStep ==
    LET before == StageOf(stage, scan_pc)
        after == StageOf(stage', scan_pc')
    IN /\ \/ after = before
          \/ after = "exited"
          \/ Position(after) = Position(before) + 1
       /\ before # "scan" =>
             UNCHANGED <<potential_leaks, leak_desc, index_parts, byte_to_leaks,
                         scan_parts, confirmed_leaks>>
       /\ before # "report" => UNCHANGED report
       /\ before = "exited" => UNCHANGED vars
       /\ (after = "exited" /\ failure' \notin {"none", "leaks"}) => UNCHANGED report

Ended ==
    /\ stage = "exited"
    /\ \/ failure = "none" /\ confirmed_leaks = {} /\ exit_status = 0
       \/ failure = "leaks" /\ report = confirmed_leaks /\ report # {}
       \/ failure \notin {"none", "leaks"} /\ exit_status # 0 /\ report = {}

\* C24: the stages run in the order binary-path check, suppressions load,
\* project resolution, file filter, extraction, post-extraction filters,
\* scan, report; a stage starts when the one before it has finished, a
\* failure ends the run before any later stage, and every run eventually
\* ends without leaks, with the leaks reported, or with a failure.
StagesRunInOrder == [][StageStep]_vars /\ <>[]Ended

\* A run went through every stage and reported leaks.
StagesRunInOrderWitness ==
    /\ stage = "exited"
    /\ failure = "leaks"
    /\ report # {}

\* The distinct paths given, and the place of one in ascending order.
GivenPaths == Elements(source_paths)

PlaceOf(path) == 1 + Cardinality({other \in GivenPaths : StrLess(other, path)})

\* C25: in manual mode get_all_compile_commands returns one command per
\* distinct path given, in ascending order of the paths whatever the order
\* they were given in, each with the canonical file name and the shared
\* arguments; when a path cannot be canonicalized the call fails and
\* returns no command.
FileListOneCommandPerPath ==
    list_pc = "returned" =>
        IF \E path \in GivenPaths : Canonicalize(path).tag # "Ok"
        THEN list_commands.tag = "Err"
        ELSE /\ list_commands.tag = "Ok"
             /\ Len(list_commands.value) = Cardinality(GivenPaths)
             /\ \A path \in GivenPaths :
                   /\ list_commands.value[PlaceOf(path)].filename
                         = Canonicalize(path).value
                   /\ list_commands.value[PlaceOf(path)].arguments = list_arguments

\* Two paths given in descending order come back in ascending order.
FileListOneCommandPerPathWitness ==
    /\ list_pc = "returned"
    /\ list_commands.tag = "Ok"
    /\ Len(source_paths) = 2
    /\ StrLess(source_paths[2], source_paths[1])
    /\ Len(list_commands.value) = 2

DedupKeepsSharedPatterns ==
    (/\ dedup_pc = "done"
     /\ \A i, j \in 1..Len(dedup_leaks) :
           PotentialLeakEq(dedup_leaks[i], dedup_leaks[j])
             => dedup_leaks[i].bytes = dedup_leaks[j].bytes) =>
        \A i \in 1..Len(dedup_leaks) :
           \E k \in 1..Len(dedup_set) : dedup_set[k].bytes = dedup_leaks[i].bytes

\* The candidates of the scanner that match somewhere in the binary.
MatchesSomewhere(leak) ==
    leak.bytes # <<>> /\ \E i \in Offsets : NaiveMatch(leak, i)

\* C27: under the unique-by-location policy every candidate that matches
\* at some offset has a confirmed leak with its own data in the final set:
\* it is not dropped for another candidate of the same source file and line
\* that matched at the same offset.
EveryMatchingCandidateIsReported ==
    (scan_pc = "done" /\ ~ ignore_multiple_declarations) =>
        \A k \in 1..Len(leak_desc) :
            MatchesSomewhere(leak_desc[k]) =>
                \E c \in confirmed_leaks : c.data = leak_desc[k].data

\* What holds: a matching candidate is reported when no other candidate of
\* its source file and line matches at the same offsets.
MatchingCandidateAloneOnItsLineIsReported ==
    (scan_pc = "done" /\ ~ ignore_multiple_declarations) =>
        \A k \in 1..Len(leak_desc) :
            (/\ MatchesSomewhere(leak_desc[k])
             /\ \A j \in 1..Len(leak_desc) :
                   leak_desc[j].declaration_metadata = leak_desc[k].declaration_metadata
                     => leak_desc[j].data = leak_desc[k].data)
              => \E c \in confirmed_leaks : c.data = leak_desc[k].data

\* The candidates with a pattern of at least one byte.
Searchable == {leak \in Elements(leak_desc) : leak.bytes # <<>>}

\* C29: a candidate with an empty byte pattern is in no bucket of the
\* first-byte index, intermediate or final, and no confirmed leak stems
\* from it: every confirmed leak is a candidate of at least one byte found
\* at the leak's offset.
EmptyPatternIsNeverSearched ==
    /\ \A k \in 1..Len(index_parts) :
          index_parts[k].done =>
             \A b \in DOMAIN index_parts[k].value :
                Elements(index_parts[k].value[b]) \subseteq Searchable
    /\ \A b \in DOMAIN byte_to_leaks : Elements(byte_to_leaks[b]) \subseteq Searchable
    /\ \A set \in SetsInFlight :
          \A c \in set :
             \E leak \in Searchable :
                /\ c = ConfirmedLeak(leak, c.location.binary.offset)
                /\ NaiveMatch(leak, c.location.binary.offset)

\* A scan with an empty pattern among its candidates confirmed a leak.
EmptyPatternIsNeverSearchedWitness ==
    /\ scan_pc = "done"
    /\ \E leak \in Elements(leak_desc) : leak.bytes = <<>>
    /\ confirmed_leaks # {}
    /\ bin_data # <<>>

\* C28: process_escape_sequences handles positions consistently in a
\* payload with characters of more than one byte: it returns a value or an
\* error and never aborts, and with one-character escapes only it gives the
\* characters before each escape unchanged and in order and the escape's
\* character, as for an ASCII payload.
MultiByteCharsKeepPositions ==
    (/\ Called
     /\ dec_parsed.tag = "Ok"
     /\ ~ IsAscii(dec_parsed.value.content)) =>
        /\ dec_decoded.tag # "Panic"
        /\ EscapeKinds(dec_parsed.value.content) \subseteq {"char"}
              => dec_decoded = Ok(Decoded(dec_parsed.value.content))

\* What holds: a payload with characters of more than one byte and no
\* backslash is returned unchanged.
MultiByteCharsWithoutEscapeKept ==
    (/\ Called
     /\ dec_parsed.tag = "Ok"
     /\ ~ IsAscii(dec_parsed.value.content)
     /\ EscapeKinds(dec_parsed.value.content) = {}) =>
        dec_decoded = Ok(dec_parsed.value.content)

MainIdle ==
    /\ stage = "idle"
    /\ failure = "none"
    /\ report = {}
    /\ exit_status = 0
    /\ stdout = <<>>

\* The scanner, the extraction and main when a specification leaves them out.
ScanIdle ==
    /\ ignore_multiple_declarations = FALSE
    /\ potential_leaks = <<>>
    /\ bin_data = <<>>
    /\ scan_pc = "idle"
    /\ leak_desc = <<>>
    /\ index_parts = <<>>
    /\ byte_to_leaks = HashMapNew
    /\ scan_parts = <<>>
    /\ confirmed_leaks = {}

DecodeIdle ==
    /\ dec_literal = <<>>
    /\ dec_mode = None
    /\ dec_pc = "idle"
    /\ dec_parsed = NotRun
    /\ dec_decoded = NotRun
    /\ dec_bytes = NotRun

\* The variables outside the scanner, the extraction and main, left out.
FilterIdle ==
    /\ suppressions = None
    /\ all_compile_commands = <<>>
    /\ filtered_commands = <<>>
    /\ extracted_leaks = <<>>
    /\ filtered_leaks = <<>>
    /\ filter_pc = "idle"
    /\ suppressions_yaml = NotRun

WalkIdle ==
    /\ walk_root = None
    /\ walk_filter = {}
    /\ walk_ignore = FALSE
    /\ walk_entities = <<>>
    /\ walk_pc = "idle"

ListIdle ==
    /\ source_paths = <<>>
    /\ list_arguments = <<>>
    /\ file_paths = <<>>
    /\ list_commands = NotRun
    /\ list_pc = "idle"

DedupIdle ==
    /\ dedup_entities = <<>>
    /\ dedup_leaks = <<>>
    /\ dedup_set = <<>>
    /\ dedup_pc = "idle"

OtherIdle == DecodeIdle /\ FilterIdle /\ WalkIdle /\ ListIdle /\ DedupIdle

ExtractIdle ==
    /\ minimum_leak_size = DefaultMinimumLeakSize
    /\ cfg_windows = FALSE
    /\ ignore_system_headers = TRUE
    /\ compile_commands = <<>>
    /\ ext_pc = "idle"
    /\ next_cmd = 1
    /\ extract_accum = <<>>
    /\ use_file_path_from_arguments = FALSE
    /\ parse_requests = <<>>
    /\ error_context = None

Init == ScanInit("main") /\ ExtractIdle /\ MainIdle /\ OtherIdle

Next == ScanNext

Spec == Init /\ [][Next]_vars

InitExtract == ScanIdle /\ ExtractInit /\ MainIdle /\ OtherIdle

SpecExtract == InitExtract /\ [][ExtractNext]_vars

InitMain == ScanInit("idle") /\ ExtractIdle /\ MainInit /\ OtherIdle

SpecMain == InitMain /\ [][MainNext]_vars

\* main is one thread that runs to its end: a statement that can run does.
SpecMainFair == SpecMain /\ WF_vars(MainNext)

\* The extraction's variables with the platform left open.
ExtractIdleOnPlatform ==
    /\ minimum_leak_size = DefaultMinimumLeakSize
    /\ cfg_windows \in BOOLEAN
    /\ ignore_system_headers = TRUE
    /\ compile_commands = <<>>
    /\ ext_pc = "idle"
    /\ next_cmd = 1
    /\ extract_accum = <<>>
    /\ use_file_path_from_arguments = FALSE
    /\ parse_requests = <<>>
    /\ error_context = None

InitDecode ==
    /\ ScanIdle /\ ExtractIdleOnPlatform /\ MainIdle
    /\ DecodeInit /\ FilterIdle /\ WalkIdle /\ ListIdle /\ DedupIdle

SpecDecode == InitDecode /\ [][DecodeNext]_vars

InitFilter ==
    /\ ScanIdle /\ ExtractIdle /\ MainIdle
    /\ DecodeIdle /\ FilterInit /\ WalkIdle /\ ListIdle /\ DedupIdle

SpecFilter == InitFilter /\ [][FilterNext]_vars

InitLoad ==
    /\ ScanIdle /\ ExtractIdle /\ MainIdle
    /\ DecodeIdle /\ LoadInit /\ WalkIdle /\ ListIdle /\ DedupIdle

SpecLoad == InitLoad /\ [][LoadNext]_vars

InitGather ==
    /\ ScanIdle /\ ExtractIdle /\ MainIdle
    /\ DecodeIdle /\ FilterIdle /\ GatherInit /\ ListIdle /\ DedupIdle

SpecGather == InitGather /\ [][GatherNext]_vars

InitFileList ==
    /\ ScanIdle /\ ExtractIdle /\ MainIdle
    /\ DecodeIdle /\ FilterIdle /\ WalkIdle /\ FileListInit /\ DedupIdle

SpecFileList == InitFileList /\ [][FileListNext]_vars

InitDedup ==
    /\ ScanIdle /\ ExtractIdleOnPlatform /\ MainIdle
    /\ DecodeIdle /\ FilterIdle /\ WalkIdle /\ ListIdle /\ DedupInit

SpecDedup == InitDedup /\ [][DedupNext]_vars

====
